---- MODULE Spec2Model ----
(***************************************************************************)
(* Model of tools/ep_nist_dependency_map.py: the reference resolver, the   *)
(* multi-root breadth-first dependency crawl and the reachability report.  *)
(*                                                                         *)
(* Python strings are sequences of characters (a "character" here is a     *)
(* chunk of text that the program never looks inside).  Values read from   *)
(* YAML are tagged records [t, v]: t is the Python type of the value and v *)
(* its text, so that `x or y` and isinstance(x, str) act as in the code.   *)
(***************************************************************************)
EXTENDS Integers, Sequences, FiniteSets, TLC

(* ------------------------------ strings -------------------------------- *)

sA == <<"A">>
sB == <<"B">>
sC == <<"C">>
sE == <<"E">>
sZ == <<"Z">>
sLowB == <<"b">>
sBx == <<"B", "x">>
sNameB == <<"n", "B">>
sEmpty == <<>>

IsPrefix(p, s) == Len(p) <= Len(s) /\ SubSeq(s, 1, Len(p)) = p

\* Python `needle in text` on strings
Contains(text, needle) ==
    \E i \in 0..(Len(text) - Len(needle)) : SubSeq(text, i + 1, i + Len(needle)) = needle

LowerChar(c) ==
    CASE c = "A" -> "a"
      [] c = "B" -> "b"
      [] c = "C" -> "c"
      [] c = "L" -> "l"
      [] c = "N" -> "n"
      [] c = "Foo" -> "foo"
      [] c = "Bar" -> "bar"
      [] c = "List" -> "list"
      [] c = "Name" -> "name"
      [] c = ".PY" -> ".py"
      [] c = ".YML" -> ".yml"
      [] c = ".JSON" -> ".json"
      [] OTHER -> c

\* str.lower()
Lower(s) == [i \in 1..Len(s) |-> LowerChar(s[i])]

(* --------------------------- Python values ----------------------------- *)

PyNone == [t |-> "none", v |-> <<>>]
PyStr(s) == [t |-> "str", v |-> s]
PyInt(s) == [t |-> "int", v |-> s]
\* a dict that carries the key "simple" with a string value, and one that does not
PySimple(s) == [t |-> "simple", v |-> s]
PyDict == [t |-> "dict", v |-> <<"k">>]
PyEmptyDict == [t |-> "dict", v |-> <<>>]
PyList == [t |-> "list", v |-> <<"k">>]

Truthy(x) ==
    CASE x.t = "none" -> FALSE
      [] x.t = "str" -> x.v # <<>>
      [] x.t = "int" -> x.v # <<"0">>
      [] x.t = "dict" -> x.v # <<>>
      [] OTHER -> TRUE

\* Python `a or b`
Or(a, b) == IF Truthy(a) THEN a ELSE b

IsStr(x) == x.t = "str"

IsDict(x) == x.t = "dict"

(* ----------------------------- ObjectDef ------------------------------- *)

ObjectDef(type, id, name, path, pack) ==
    [type |-> type, id |-> id, name |-> name, path |-> path, pack |-> pack]

\* the None that resolve_in_index and dict.get return
NoObj == [type |-> "none", id |-> <<>>, name |-> <<>>, path |-> <<>>, pack |-> <<>>]

\* an index is a Python dict id -> ObjectDef, kept as the sequence of its values
\* in insertion order; its keys are the ids of the values
Keys(objs) == {objs[i].id : i \in 1..Len(objs)}

HasKey(objs, value) == \E i \in 1..Len(objs) : objs[i].id = value

Get(objs, value) ==
    IF HasKey(objs, value)
    THEN objs[CHOOSE i \in 1..Len(objs) : objs[i].id = value]
    ELSE NoObj

resolve_in_index_nameonly(value, objs) ==
    IF \E i \in 1..Len(objs) : objs[i].name = value
    THEN objs[CHOOSE i \in 1..Len(objs) :
                 /\ objs[i].name = value
                 /\ \A j \in 1..(i - 1) : objs[j].name # value]
    ELSE IF HasKey(objs, value) THEN Get(objs, value) ELSE NoObj

resolve_in_index_folded(value, objs) ==
    IF \E i \in 1..Len(objs) : Lower(objs[i].id) = Lower(value)
    THEN objs[CHOOSE i \in 1..Len(objs) : Lower(objs[i].id) = Lower(value)]
    ELSE IF \E i \in 1..Len(objs) : Lower(objs[i].name) = Lower(value)
         THEN objs[CHOOSE i \in 1..Len(objs) :
                      /\ Lower(objs[i].name) = Lower(value)
                      /\ \A j \in 1..(i - 1) : Lower(objs[j].name) # Lower(value)]
         ELSE NoObj

\* resolve by id first, then by name (first in dict order)
resolve_in_index(value, objs) ==
    IF HasKey(objs, value)
    THEN Get(objs, value)
    ELSE IF \E i \in 1..Len(objs) : objs[i].name = value
         THEN objs[CHOOSE i \in 1..Len(objs) :
                      /\ objs[i].name = value
                      /\ \A j \in 1..(i - 1) : objs[j].name # value]
         ELSE NoObj

(* ------------------------- exception lists ----------------------------- *)

EXCEPTION_LOCAL_PLAYBOOK_IDS ==
    {<<"SOC Comms Email">>, <<"SOC Comms IM">>, <<"SOC Comms Ticketing">>}

EXCEPTION_LOCAL_SCRIPT_IDS ==
    {<<"removeSOCFramework">>, <<"setValueTags">>, <<"ShadowModeRouter">>}

EXCEPTION_LOCAL_LIST_IDS ==
    {<<"SOCProductCategoryMap">>, <<"SOCOptimizationConfig">>, <<"SOCFrameworkActions">>,
     <<"SOCVendorCapabilities">>, <<"SOCExecutionList">>, <<"SOCArtifacts">>}

sBuiltin == <<"Builtin|||">>

EXCEPTION_EXTERNAL_SCRIPT_REFS ==
    {<<"Builtin|||", "setIncident">>, <<"Builtin|||", "setContext">>,
     <<"Builtin|||", "DeleteContext">>, <<"Builtin|||", "createNewIncident">>,
     <<"Builtin|||", "closeInvestigation">>,
     <<"Print">>, <<"Set">>, <<"SetAndHandleEmpty">>, <<"DBotFindSimilarAlerts">>,
     <<"|||", "ip">>, <<"DeleteContext">>, <<"GetAlertTasks">>, <<"GetTime">>,
     <<"SearchAlertsV2">>, <<"|||", "core-api-post">>, <<"|||", "xql-post-to-dataset">>}

IGNORE_ALL_BUILTIN_COMMANDS == TRUE

UNKNOWN == <<"UNKNOWN">>

\* the argument names (lower-cased) that carry a list reference
LIST_ARG_KEYS ==
    {<<"list", "name">>, <<"list", "_", "name">>, <<"list">>, <<"list", "s">>,
     <<"list", "name", "s">>}

(* ------------------------- reading one task ---------------------------- *)

\* the `task` mapping of a task with no reference field set
NoFields ==
    [playbookId |-> PyNone, playbook_id |-> PyNone, playbookName |-> PyNone,
     playbook |-> PyNone, scriptName |-> PyNone, script |-> PyNone,
     scriptId |-> PyNone, script_id |-> PyNone]

Task(fields, args) == [task |-> fields, scriptarguments |-> args]

Arg(name, val) == [name |-> name, val |-> val]

sub_pb_id(task) == Or(task.task.playbookId, task.task.playbook_id)

sub_pb_name(task) == Or(task.task.playbookName, task.task.playbook)

HasSubPbRef(task) == IsStr(sub_pb_id(task)) \/ IsStr(sub_pb_name(task))

ref_val_nameFirst(task) ==
    IF IsStr(sub_pb_name(task)) THEN sub_pb_name(task).v ELSE sub_pb_id(task).v

ref_val(task) ==
    IF IsStr(sub_pb_id(task)) THEN sub_pb_id(task).v ELSE sub_pb_name(task).v

script_ref(task) ==
    Or(Or(Or(task.task.scriptName, task.task.script), task.task.scriptId),
       task.task.script_id)

HasScriptRef(task) == IsStr(script_ref(task))

ScriptSkipped_allowListOnly(ref) == ref \in EXCEPTION_EXTERNAL_SCRIPT_REFS

\* the built-in prefix first, then the allow-list
ScriptSkipped(ref) ==
    \/ IGNORE_ALL_BUILTIN_COMMANDS /\ IsPrefix(sBuiltin, ref)
    \/ ref \in EXCEPTION_EXTERNAL_SCRIPT_REFS

\* the string a list-convention argument carries, if any
ArgIsListRef(arg) ==
    /\ Lower(arg.name) \in LIST_ARG_KEYS
    /\ arg.val.t \in {"simple", "str"}

(* ------------------------ external resolution -------------------------- *)

ExtIndexOf(ext, kind) ==
    CASE kind = "playbook" -> ext.pbs
      [] kind = "script" -> ext.scripts
      [] kind = "list" -> ext.lists

ExtResolves(exts, i, value, kind) ==
    resolve_in_index(value, ExtIndexOf(exts[i], kind)) # NoObj

resolved_pack_last(exts, value, kind) ==
    IF \E i \in 1..Len(exts) : ExtResolves(exts, i, value, kind)
    THEN exts[CHOOSE i \in 1..Len(exts) :
                 /\ ExtResolves(exts, i, value, kind)
                 /\ \A j \in (i + 1)..Len(exts) : ~ExtResolves(exts, j, value, kind)].pack
    ELSE UNKNOWN

resolved_pack_defaultFirst(exts, value, kind) ==
    IF \E i \in 1..Len(exts) : ExtResolves(exts, i, value, kind)
    THEN exts[CHOOSE i \in 1..Len(exts) :
                 /\ ExtResolves(exts, i, value, kind)
                 /\ \A j \in 1..(i - 1) : ~ExtResolves(exts, j, value, kind)].pack
    ELSE IF Len(exts) > 0 THEN exts[1].pack ELSE UNKNOWN

\* the first external pack, in the order supplied, whose index resolves the value
resolved_pack(exts, value, kind) ==
    IF \E i \in 1..Len(exts) : ExtResolves(exts, i, value, kind)
    THEN exts[CHOOSE i \in 1..Len(exts) :
                 /\ ExtResolves(exts, i, value, kind)
                 /\ \A j \in 1..(i - 1) : ~ExtResolves(exts, j, value, kind)].pack
    ELSE UNKNOWN

ExternalRef(ref_type, value, file, context, pack) ==
    [ref_type |-> ref_type, value |-> value, file |-> file, context |-> context,
     resolved_pack |-> pack]

Context(tid, what, arg) == [tid |-> tid, what |-> what, arg |-> arg]

(* ------------------------------- state --------------------------------- *)

VARIABLES
    local_pbs,          \* index of the root pack: playbooks
    local_scripts,      \* index of the root pack: scripts
    local_lists,        \* index of the root pack: lists
    external_indexes,   \* one [pack, pbs, scripts, lists] per external pack, in order
    files,              \* playbook path -> the tasks load_yaml finds in the file
    all_files,          \* the files under the repo root: set of [path, text]
    file_text,          \* the text cache built from them: set of [path, text]
    root_playbooks,     \* the resolved root playbooks, in argument order
    reachable_pbs,
    reachable_scripts,
    reachable_lists,
    external_refs,
    queue,
    pc,                 \* where main / crawl_dependencies stands
    cur,                \* the playbook being expanded (pb)
    tidx,               \* position in the task loop of cur
    enq_log,            \* history: every id put in the queue, in order
    deq_log,            \* history: every id popped from the queue, in order
    unused_pbs,
    unused_scripts,
    unused_lists,
    pack_dirs,          \* the files os.walk finds in Playbooks, Scripts and Lists
    fpos,               \* position of a discover_* loop in its folder
    stderr,             \* the warnings written so far
    first_index,        \* index_pack called twice: what the first call returned
    runs,               \* and how many calls were started
    cmdline,            \* main: args, the parsed command line and what is at its paths
    exit_code,          \* main: the status the process ended with, or NoExit
    stdout,             \* main: the headings printed so far
    yaml_errors,        \* paths of the playbook files that yaml.safe_load rejects
    by_key,             \* main: the groups of the external dependencies, key -> records
    external_count,     \* main: the number printed in the heading of that section
    res_value,          \* resolve_in_index called on its own: the value,
    res_objs,           \* the index,
    res_out             \* and what it returned

vars ==
    <<local_pbs, local_scripts, local_lists, external_indexes, files, all_files,
      file_text, root_playbooks, reachable_pbs, reachable_scripts, reachable_lists,
      external_refs, queue, pc, cur, tidx, enq_log, deq_log,
      unused_pbs, unused_scripts, unused_lists, pack_dirs, fpos, stderr,
      first_index,
      runs,
      cmdline,
      exit_code,
      stdout,
      yaml_errors,
      by_key,
      external_count,
      res_value, res_objs, res_out>>

\* a pack without content folders
NoDirs == [Playbooks |-> <<>>, Scripts |-> <<>>, Lists |-> <<>>]

\* the process is still running
NoExit == -1

\* what index_pack does at a directory: it raises, or returns three indexes
PackIndex(raises, pbs, scripts, lists) ==
    [raises |-> raises, pbs |-> pbs, scripts |-> scripts, lists |-> lists]

\* a crawl that is not started from the command line
NoArgs ==
    [root_pack_isdir |-> TRUE, root_pack |-> PackIndex(FALSE, <<>>, <<>>, <<>>),
     other_pack |-> <<>>, root_playbook_id |-> <<>>, root_playbook_name |-> <<>>]

\* what a crawl and its report only read
inputs ==
    <<local_pbs, local_scripts, local_lists, external_indexes, files, all_files,
      root_playbooks, pack_dirs, fpos, first_index,
      runs,
      cmdline,
      yaml_errors,
      res_value, res_objs, res_out>>

(* ------------------------ one task of the crawl ------------------------ *)

\* the accumulators of crawl_dependencies
Acc == [rp |-> reachable_pbs, rs |-> reachable_scripts, rl |-> reachable_lists,
        er |-> external_refs, q |-> queue, enq |-> enq_log]

NotVisited_never(id, rp) == TRUE

\* the membership test before enqueueing
NotVisited(id, rp) == id \notin rp

SubPlaybookPart_noEnqueue(task, tid, pb, st) ==
    IF ~HasSubPbRef(task)
    THEN st
    ELSE LET v == ref_val(task)
             resolved_local == resolve_in_index(v, local_pbs)
         IN  IF resolved_local # NoObj
             THEN [st EXCEPT !.rp = @ \cup {resolved_local.id}]
             ELSE [st EXCEPT !.er = Append(@,
                      ExternalRef("playbook", v, pb.path, Context(tid, "playbook", <<>>),
                                  resolved_pack(external_indexes, v, "playbook")))]

SubPlaybookPart_enqueueExternal(task, tid, pb, st) ==
    IF ~HasSubPbRef(task)
    THEN st
    ELSE LET v == ref_val(task)
             resolved_local == resolve_in_index(v, local_pbs)
         IN  IF resolved_local # NoObj
             THEN IF NotVisited(resolved_local.id, st.rp)
                  THEN [st EXCEPT !.rp = @ \cup {resolved_local.id},
                                  !.q = Append(@, resolved_local.id),
                                  !.enq = Append(@, resolved_local.id)]
                  ELSE st
             ELSE [st EXCEPT !.q = Append(@, v),
                             !.enq = Append(@, v),
                             !.er = Append(@,
                      ExternalRef("playbook", v, pb.path, Context(tid, "playbook", <<>>),
                                  resolved_pack(external_indexes, v, "playbook")))]

SubPlaybookPart_rawValue(task, tid, pb, st) ==
    IF ~HasSubPbRef(task)
    THEN st
    ELSE LET v == ref_val(task)
             resolved_local == resolve_in_index(v, local_pbs)
         IN  IF resolved_local # NoObj
             THEN IF NotVisited(v, st.rp)
                  THEN [st EXCEPT !.rp = @ \cup {v},
                                  !.q = Append(@, v),
                                  !.enq = Append(@, v)]
                  ELSE st
             ELSE [st EXCEPT !.er = Append(@,
                      ExternalRef("playbook", v, pb.path, Context(tid, "playbook", <<>>),
                                  resolved_pack(external_indexes, v, "playbook")))]

SubPlaybookPart(task, tid, pb, st) ==
    IF ~HasSubPbRef(task)
    THEN st
    ELSE LET v == ref_val(task)
             resolved_local == resolve_in_index(v, local_pbs)
         IN  IF resolved_local # NoObj
             THEN IF NotVisited(resolved_local.id, st.rp)
                  THEN [st EXCEPT !.rp = @ \cup {resolved_local.id},
                                  !.q = Append(@, resolved_local.id),
                                  !.enq = Append(@, resolved_local.id)]
                  ELSE st
             ELSE [st EXCEPT !.er = Append(@,
                      ExternalRef("playbook", v, pb.path, Context(tid, "playbook", <<>>),
                                  resolved_pack(external_indexes, v, "playbook")))]

ScriptPart_rawValue(task, tid, pb, st) ==
    IF ~HasScriptRef(task)
    THEN st
    ELSE LET v == script_ref(task).v
             resolved_local == resolve_in_index(v, local_scripts)
         IN  IF ScriptSkipped(v)
             THEN st
             ELSE IF resolved_local # NoObj
                  THEN [st EXCEPT !.rs = @ \cup {v}]
                  ELSE [st EXCEPT !.er = Append(@,
                           ExternalRef("script", v, pb.path, Context(tid, "script", <<>>),
                                       resolved_pack(external_indexes, v, "script")))]

ScriptPart_externalFirst(task, tid, pb, st) ==
    IF ~HasScriptRef(task)
    THEN st
    ELSE LET v == script_ref(task).v
             resolved_local == resolve_in_index(v, local_scripts)
             pack == resolved_pack(external_indexes, v, "script")
         IN  IF ScriptSkipped(v)
             THEN st
             ELSE IF pack = UNKNOWN /\ resolved_local # NoObj
                  THEN [st EXCEPT !.rs = @ \cup {resolved_local.id}]
                  ELSE [st EXCEPT !.er = Append(@,
                           ExternalRef("script", v, pb.path, Context(tid, "script", <<>>),
                                       pack))]

ScriptPart_dedup(task, tid, pb, st) ==
    IF ~HasScriptRef(task)
    THEN st
    ELSE LET v == script_ref(task).v
             resolved_local == resolve_in_index(v, local_scripts)
         IN  IF ScriptSkipped(v)
             THEN st
             ELSE IF resolved_local # NoObj
                  THEN [st EXCEPT !.rs = @ \cup {resolved_local.id}]
                  ELSE IF \E n \in 1..Len(st.er) :
                             st.er[n].ref_type = "script" /\ st.er[n].value = v
                       THEN st
                       ELSE [st EXCEPT !.er = Append(@,
                                ExternalRef("script", v, pb.path,
                                            Context(tid, "script", <<>>),
                                            resolved_pack(external_indexes, v, "script")))]

ScriptPart_localFirst(task, tid, pb, st) ==
    IF ~HasScriptRef(task)
    THEN st
    ELSE LET v == script_ref(task).v
             resolved_local == resolve_in_index(v, local_scripts)
         IN  IF resolved_local # NoObj
             THEN [st EXCEPT !.rs = @ \cup {resolved_local.id}]
             ELSE IF ScriptSkipped(v)
                  THEN st
                  ELSE [st EXCEPT !.er = Append(@,
                           ExternalRef("script", v, pb.path, Context(tid, "script", <<>>),
                                       resolved_pack(external_indexes, v, "script")))]

ScriptPart(task, tid, pb, st) ==
    IF ~HasScriptRef(task)
    THEN st
    ELSE LET v == script_ref(task).v
             resolved_local == resolve_in_index(v, local_scripts)
         IN  IF ScriptSkipped(v)
             THEN st
             ELSE IF resolved_local # NoObj
                  THEN [st EXCEPT !.rs = @ \cup {resolved_local.id}]
                  ELSE [st EXCEPT !.er = Append(@,
                           ExternalRef("script", v, pb.path, Context(tid, "script", <<>>),
                                       resolved_pack(external_indexes, v, "script")))]

RECURSIVE ListPart(_, _, _, _, _)
ListPart(args, k, tid, pb, st) ==
    IF k > Len(args)
    THEN st
    ELSE IF ~ArgIsListRef(args[k])
         THEN ListPart(args, k + 1, tid, pb, st)
         ELSE LET val == args[k].val.v
                  resolved_local == resolve_in_index(val, local_lists)
              IN  ListPart(args, k + 1, tid, pb,
                      IF resolved_local # NoObj
                      THEN [st EXCEPT !.rl = @ \cup {resolved_local.id}]
                      ELSE [st EXCEPT !.er = Append(@,
                               ExternalRef("list", val, pb.path,
                                           Context(tid, "arg", args[k].name),
                                           resolved_pack(external_indexes, val, "list")))])

\* the body of `for tid, task in tasks.items()`
TaskBody(task, tid, pb, st) ==
    ListPart(task.scriptarguments, 1, tid, pb,
        ScriptPart(task, tid, pb,
            SubPlaybookPart(task, tid, pb, st)))

(* ------------------------------ actions -------------------------------- *)

RECURSIVE Perms(_)
Perms(S) ==
    IF S = {} THEN {<<>>}
    ELSE UNION {{<<x>> \o p : p \in Perms(S \ {x})} : x \in S}

\* load_yaml(pb.path) in the crawl: a file that does not parse gives {} and a
\* warning, and `data.get("tasks") or {}` then has no task
crawl_tasks(path) == IF path \in yaml_errors THEN <<>> ELSE files[path]

crawl_yaml_warnings(path) ==
    IF path \in yaml_errors
    THEN <<[msg |-> "Failed to parse YAML", id |-> <<>>, path |-> path,
            already |-> <<>>]>>
    ELSE <<>>

CrawlStart_firstRootOnly ==
    /\ pc = "start"
    /\ reachable_pbs' = {root_playbooks[i].id : i \in 1..Len(root_playbooks)}
    /\ \E q \in Perms(reachable_pbs') :
         /\ queue' = <<q[1]>>
         /\ enq_log' = <<q[1]>>
    /\ reachable_scripts' = {}
    /\ reachable_lists' = {}
    /\ external_refs' = <<>>
    /\ pc' = "loop"
    /\ UNCHANGED <<inputs, cur, tidx, deq_log, unused_pbs, unused_scripts, unused_lists,
                   file_text, exit_code, stdout, stderr,
                   by_key, external_count>>

\* crawl_dependencies up to the loop: the roots become the reachable set and,
\* in the order a Python set happens to list them, the queue
CrawlStart ==
    /\ pc = "start"
    /\ reachable_pbs' = {root_playbooks[i].id : i \in 1..Len(root_playbooks)}
    /\ \E q \in Perms(reachable_pbs') :
         /\ queue' = q
         /\ enq_log' = q
    /\ reachable_scripts' = {}
    /\ reachable_lists' = {}
    /\ external_refs' = <<>>
    /\ pc' = "loop"
    /\ UNCHANGED <<inputs, cur, tidx, deq_log, unused_pbs, unused_scripts, unused_lists,
                   file_text, exit_code, stdout, stderr,
                   by_key, external_count>>

Dequeue_removes ==
    /\ pc = "loop"
    /\ queue # <<>>
    /\ LET current_id == Head(queue)
           pb == Get(local_pbs, current_id)
       IN  /\ queue' = Tail(queue)
           /\ deq_log' = Append(deq_log, current_id)
           /\ reachable_pbs' = reachable_pbs \ {current_id}
           /\ stderr' = IF pb = NoObj THEN stderr
                        ELSE stderr \o crawl_yaml_warnings(pb.path)
           /\ IF pb = NoObj \/ Len(crawl_tasks(pb.path)) = 0
              THEN /\ pc' = "loop"
                   /\ UNCHANGED <<cur, tidx>>
              ELSE /\ pc' = "tasks"
                   /\ cur' = pb
                   /\ tidx' = 1
    /\ UNCHANGED <<inputs, reachable_scripts, reachable_lists,
                   external_refs, enq_log, unused_pbs, unused_scripts, unused_lists,
                   file_text, exit_code, stdout, by_key, external_count>>

Dequeue_ignoresYamlError ==
    /\ pc = "loop"
    /\ queue # <<>>
    /\ LET current_id == Head(queue)
           pb == Get(local_pbs, current_id)
       IN  /\ queue' = Tail(queue)
           /\ deq_log' = Append(deq_log, current_id)
           /\ stderr' = IF pb = NoObj THEN stderr
                        ELSE stderr \o crawl_yaml_warnings(pb.path)
           /\ IF pb = NoObj \/ Len(files[pb.path]) = 0
              THEN /\ pc' = "loop"
                   /\ UNCHANGED <<cur, tidx>>
              ELSE /\ pc' = "tasks"
                   /\ cur' = pb
                   /\ tidx' = 1
    /\ UNCHANGED <<inputs, reachable_pbs, reachable_scripts, reachable_lists,
                   external_refs, enq_log, unused_pbs, unused_scripts, unused_lists,
                   file_text, exit_code, stdout, by_key, external_count>>

\* queue.pop(0), local_pbs.get, load_yaml, data.get("tasks") or {}
Dequeue ==
    /\ pc = "loop"
    /\ queue # <<>>
    /\ LET current_id == Head(queue)
           pb == Get(local_pbs, current_id)
       IN  /\ queue' = Tail(queue)
           /\ deq_log' = Append(deq_log, current_id)
           /\ stderr' = IF pb = NoObj THEN stderr
                        ELSE stderr \o crawl_yaml_warnings(pb.path)
           /\ IF pb = NoObj \/ Len(crawl_tasks(pb.path)) = 0
              THEN /\ pc' = "loop"
                   /\ UNCHANGED <<cur, tidx>>
              ELSE /\ pc' = "tasks"
                   /\ cur' = pb
                   /\ tidx' = 1
    /\ UNCHANGED <<inputs, reachable_pbs, reachable_scripts, reachable_lists,
                   external_refs, enq_log, unused_pbs, unused_scripts, unused_lists,
                   file_text, exit_code, stdout, by_key, external_count>>

\* one iteration of the task loop of the playbook being expanded
ProcessTask ==
    /\ pc = "tasks"
    /\ LET tasks == files[cur.path]
           st == TaskBody(tasks[tidx], tidx, cur, Acc)
       IN  /\ reachable_pbs' = st.rp
           /\ reachable_scripts' = st.rs
           /\ reachable_lists' = st.rl
           /\ external_refs' = st.er
           /\ queue' = st.q
           /\ enq_log' = st.enq
           /\ IF tidx < Len(tasks)
              THEN /\ tidx' = tidx + 1
                   /\ pc' = "tasks"
              ELSE /\ tidx' = 0
                   /\ pc' = "loop"
    /\ UNCHANGED <<inputs, cur, deq_log, unused_pbs, unused_scripts, unused_lists,
                   file_text, exit_code, stdout, stderr,
                   by_key, external_count>>

\* `while queue` ends: crawl_dependencies returns
CrawlReturn ==
    /\ pc = "loop"
    /\ queue = <<>>
    /\ pc' = "returned"
    /\ UNCHANGED <<inputs, reachable_pbs, reachable_scripts, reachable_lists,
                   external_refs, queue, cur, tidx, enq_log, deq_log,
                   unused_pbs, unused_scripts, unused_lists, file_text, exit_code, stdout, stderr,
                   by_key, external_count>>

\* os.path.splitext: a path is written with its extension as the last chunk
splitext(path) == <<SubSeq(path, 1, Len(path) - 1), path[Len(path)]>>

TEXT_EXTENSIONS ==
    {".yml", ".yaml", ".json", ".py", ".xif", ".md", ".txt", ".ini", ".cfg", ".conf"}

is_text_file(path) == LowerChar(splitext(path)[2]) \in TEXT_EXTENSIONS

build_file_text_cache(fs) == {f \in fs : is_text_file(f.path)}

list_is_referenced_anywhere_noskip(obj, ft) ==
    \E f \in ft : Contains(f.text, obj.id) \/ Contains(f.text, obj.name)

list_is_referenced_anywhere(obj, ft) ==
    \E f \in ft :
        /\ f.path # obj.path
        /\ Contains(f.text, obj.id) \/ Contains(f.text, obj.name)

not_needed_ignoring_exceptions(all, reachable, exceptions) == all \ reachable

not_needed_ignoring_reachable(all, reachable, exceptions) == all \ exceptions

\* all_local_ids - reachable_ids - exception_ids
not_needed(all, reachable, exceptions) == (all \ reachable) \ exceptions

really_unused_lists_noscan(unused, lists, ft) == unused

really_unused_lists(unused, lists, ft) ==
    {lid \in unused : ~list_is_referenced_anywhere(Get(lists, lid), ft)}

KeepHeadings ==
    <<"LOCAL PLAYBOOKS TO KEEP", "LOCAL SCRIPTS TO KEEP", "LOCAL LISTS TO KEEP">>

NotNeededHeadings_noExternal ==
    <<"Scanning repo root for list references", "LOCAL PLAYBOOKS NOT NEEDED",
      "LOCAL SCRIPTS NOT NEEDED", "LOCAL LISTS NOT NEEDED">>

NotNeededHeadings ==
    <<"Scanning repo root for list references", "LOCAL PLAYBOOKS NOT NEEDED",
      "LOCAL SCRIPTS NOT NEEDED", "LOCAL LISTS NOT NEEDED", "EXTERNAL DEPENDENCIES">>

\* print_objs prints its heading and then looks every id up with index[oid]:
\* the sections of the keep part whose lookups raise KeyError
KeepFailures ==
    {k \in 1..3 :
        ~(<<reachable_pbs, reachable_scripts, reachable_lists>>[k]
            \subseteq Keys(<<local_pbs, local_scripts, local_lists>>[k]))}

\* by_key.setdefault(key, []).append(e) for every record, with
\* key = (e.ref_type, e.resolved_pack): nothing when there is no record
Groups(refs) ==
    [key \in {<<refs[i].ref_type, refs[i].resolved_pack>> : i \in 1..Len(refs)} |->
        SelectSeq(refs, LAMBDA e : <<e.ref_type, e.resolved_pack>> = key)]

\* main after the crawl: the keep sections, the not-needed sets, the list
\* text scan, the remaining sections and the return
Report ==
    /\ pc = "returned"
    /\ IF KeepFailures # {}
       THEN /\ stdout' = stdout \o SubSeq(KeepHeadings, 1, CHOOSE k \in KeepFailures :
                                              \A j \in KeepFailures : k <= j)
            /\ exit_code' = 1
            /\ pc' = "exited"
            /\ UNCHANGED <<unused_pbs, unused_scripts, unused_lists, file_text, by_key,
                           external_count>>
       ELSE /\ unused_pbs' =
                  not_needed(Keys(local_pbs), reachable_pbs, EXCEPTION_LOCAL_PLAYBOOK_IDS)
            /\ unused_scripts' =
                  not_needed(Keys(local_scripts), reachable_scripts,
                             EXCEPTION_LOCAL_SCRIPT_IDS)
            /\ file_text' = build_file_text_cache(all_files)
            /\ unused_lists' =
                  really_unused_lists(
                      not_needed(Keys(local_lists), reachable_lists,
                                 EXCEPTION_LOCAL_LIST_IDS),
                      local_lists, file_text')
            /\ stdout' = stdout \o KeepHeadings \o NotNeededHeadings
            /\ external_count' = Len(external_refs)
            /\ by_key' = Groups(external_refs)
            /\ exit_code' = 0
            /\ pc' = "done"
    /\ UNCHANGED <<inputs, reachable_pbs, reachable_scripts, reachable_lists,
                   external_refs, queue, cur, tidx, enq_log, deq_log, stderr>>

Next == CrawlStart \/ Dequeue \/ ProcessTask \/ CrawlReturn \/ Report

(* --------------------------- bounded inputs ---------------------------- *)

\* most tasks in the file of the entry playbook (Init)
MaxTasks == 2

\* most tasks in all the playbook files of a pack together (InitGraph)
MaxGraphTasks == 3

rootPack == <<"Packs/root">>
extPack1 == <<"Packs/ext1">>
extPack2 == <<"Packs/ext2">>

PbDef(pack, id, name) ==
    ObjectDef("playbook", id, name, pack \o <<"/Playbooks/">> \o id \o <<".yml">>, pack)

ScriptDef(pack, id, name) ==
    ObjectDef("script", id, name, pack \o <<"/Scripts/">> \o id \o <<".yml">>, pack)

ListDef(pack, id, file) ==
    ObjectDef("list", id, id, pack \o <<"/Lists/">> \o file, pack)

pA == PbDef(rootPack, sA, sA)
pB == PbDef(rootPack, sB, sNameB)
\* a playbook whose display name is the id of another one
pC == PbDef(rootPack, sC, sB)
pComms == PbDef(rootPack, <<"SOC Comms Email">>, <<"SOC Comms Email">>)

sS1 == <<"S1">>
sNameS1 == <<"n", "S1">>
sSE == <<"SE">>
sL1 == <<"L1">>
sL2 == <<"L2">>
sLE == <<"LE">>

scS1 == ScriptDef(rootPack, sS1, sNameS1)
scPrint == ScriptDef(rootPack, <<"Print">>, <<"Print">>)
scTags == ScriptDef(rootPack, <<"setValueTags">>, <<"setValueTags">>)

liL1 == ListDef(rootPack, sL1, <<"L1", ".json">>)
liL2 == ListDef(rootPack, sL2, <<"L2", "_data", ".json">>)
liArtifacts == ListDef(rootPack, <<"SOCArtifacts">>, <<"SOCArtifacts", ".json">>)

extE1 == PbDef(extPack1, sE, sE)
extE2 == PbDef(extPack2, sE, sE)

\* two external packs that both define playbook E, script SE and list LE; the
\* first also defines objects with the ids of local ones
ext1 == [pack |-> extPack1,
         pbs |-> <<extE1, PbDef(extPack1, sB, sB)>>,
         scripts |-> <<ScriptDef(extPack1, sSE, sSE), ScriptDef(extPack1, sS1, sS1)>>,
         lists |-> <<ListDef(extPack1, sLE, <<"LE", ".json">>),
                     ListDef(extPack1, sL1, <<"L1", ".json">>)>>]

ext2 == [pack |-> extPack2,
         pbs |-> <<extE2>>,
         scripts |-> <<ScriptDef(extPack2, sSE, sSE)>>,
         lists |-> <<ListDef(extPack2, sLE, <<"LE", ".json">>)>>]

PbTask(id, name) ==
    Task([NoFields EXCEPT !.playbookId = id, !.playbookName = name], <<>>)

ScriptTask(ref) == Task([NoFields EXCEPT !.scriptName = ref], <<>>)

ListTask(name, val) == Task(NoFields, <<Arg(name, val)>>)

\* tasks that only carry a sub-playbook reference
GraphTasks ==
    {PbTask(PyStr(sA), PyNone), PbTask(PyNone, PyStr(sNameB)), PbTask(PyStr(sB), PyNone),
     PbTask(PyStr(sC), PyNone)}

\* tasks with references of every kind: local by id, local by name, defined in
\* an external pack, defined nowhere, skipped, local and on an exception list
RefTasks ==
    {PbTask(PyStr(sB), PyStr(sA)), PbTask(PyStr(sE), PyNone), PbTask(PyNone, PyStr(sZ)),
     ScriptTask(PyStr(sS1)), ScriptTask(PyStr(sNameS1)), ScriptTask(PyStr(sSE)),
     ScriptTask(PyStr(sZ)), ScriptTask(PyStr(<<"Builtin|||", "x">>)),
     ScriptTask(PyStr(<<"Print">>)), PbTask(PyStr(pComms.id), PyNone),
     ListTask(<<"list", "Name">>, PySimple(sL1)), ListTask(<<"list">>, PyStr(sLE)),
     ListTask(<<"List", "s">>, PyStr(sZ)), ListTask(<<"key">>, PyStr(sL1)),
     Task([NoFields EXCEPT !.playbook_id = PyStr(sZ), !.script = PyStr(sZ)],
          <<Arg(<<"list", "_", "name">>, PyStr(sZ)), Arg(<<"list">>, PyDict)>>)}

TaskSeqs(U, n) == UNION {[1..k -> U] : k \in 0..n}

NonEmptySubSeqs3(s) ==
    {<<s[1]>>, <<s[2]>>, <<s[3]>>, <<s[1], s[2]>>, <<s[1], s[3]>>, <<s[2], s[3]>>, s}

Paths(objs) == {objs[i].path : i \in 1..Len(objs)}

\* the roots given on the command line: one playbook, the same one twice, or two
RootChoices(objs) ==
    {<<objs[1]>>, <<objs[1], objs[1]>>, <<objs[1], objs[Len(objs)]>>,
     <<objs[Len(objs)]>>}

ResultsInit ==
    /\ reachable_pbs = {}
    /\ reachable_scripts = {}
    /\ reachable_lists = {}
    /\ external_refs = <<>>
    /\ queue = <<>>
    /\ cur = NoObj
    /\ tidx = 0
    /\ enq_log = <<>>
    /\ deq_log = <<>>
    /\ unused_pbs = {}
    /\ unused_scripts = {}
    /\ unused_lists = {}
    /\ file_text = {}
    /\ pack_dirs = NoDirs
    /\ fpos = 0
    /\ stderr = <<>>
    /\ first_index = <<>>
    /\ runs = 0
    /\ exit_code = NoExit
    /\ stdout = <<>>
    /\ by_key = <<>>
    /\ external_count = 0
    /\ res_value = <<>>
    /\ res_objs = <<>>
    /\ res_out = NoObj

\* every way to give each path of P a task sequence over U, at most k tasks in all
RECURSIVE FileChoices(_, _, _)
FileChoices(P, U, k) ==
    IF P = {} THEN {<<>>}
    ELSE LET p == CHOOSE x \in P : TRUE
         IN  UNION {{(p :> s) @@ f : f \in FileChoices(P \ {p}, U, k - Len(s))} :
                    s \in TaskSeqs(U, k)}

\* packs of playbooks that reference each other, crawled from one or two roots
InitGraph ==
    /\ local_pbs \in NonEmptySubSeqs3(<<pA, pB, pC>>) \cup {<<pC, pB, pA>>}
    /\ local_scripts = <<>>
    /\ local_lists = <<>>
    /\ external_indexes = <<>>
    /\ files \in FileChoices(Paths(local_pbs), GraphTasks, MaxGraphTasks)
    /\ all_files = {}
    /\ root_playbooks \in RootChoices(local_pbs)
    /\ cmdline = NoArgs
    /\ yaml_errors = {}
    /\ pc = "start"
    /\ ResultsInit

\* a script whose code names list L2
scriptFile == [path |-> rootPack \o <<"/Scripts/", "util", ".PY">>,
               text |-> <<"getList(", "L2", ")">>]

\* a file with the same words that is not a text file
dumpFile == [path |-> rootPack \o <<"/Scripts/", "util", ".bin">>,
             text |-> <<"getList(", "L2", ")">>]

\* the metadata file of list L2, next to the L2_data.json the index entry names
siblingFile == [path |-> rootPack \o <<"/Lists/", "L2", ".json">>,
                text |-> <<"{name: ", "L2", "}">>]

ownFile(obj) == [path |-> obj.path, text |-> <<"{name: ">> \o obj.id \o <<"}">>]

\* what is in the files of the playbooks of the external packs: references to
\* local objects and to objects defined nowhere
extFiles ==
    (extE1.path :> <<PbTask(PyStr(sB), PyNone), ScriptTask(PyStr(sS1))>>)
    @@ (extE2.path :> <<ListTask(<<"list">>, PyStr(sL1)), ScriptTask(PyStr(sBx))>>)

\* a pack whose entry playbook A references objects of every kind
Init ==
    /\ local_pbs = <<pA, pB, pComms>>
    /\ local_scripts = <<scS1, scPrint, scTags>>
    /\ local_lists = <<liL1, liL2, liArtifacts>>
    /\ external_indexes \in {<<>>, <<ext1, ext2>>, <<ext2, ext1>>}
    /\ \E a \in TaskSeqs(RefTasks, MaxTasks), b \in {<<>>, <<ScriptTask(PyStr(sS1))>>} :
          files = (pA.path :> a) @@ (pB.path :> b) @@ (pComms.path :> <<>>) @@ extFiles
    /\ all_files \in
          {{ownFile(liL1), ownFile(liL2), ownFile(liArtifacts), dumpFile} \cup extra :
              extra \in {{}, {scriptFile}, {siblingFile}}}
    /\ root_playbooks = <<pA>>
    /\ cmdline = NoArgs
    /\ yaml_errors = {}
    /\ pc = "start"
    /\ ResultsInit

\* values a reference field of a task can hold: absent, empty, a string, a number
IdLikeValues == {PyNone, PyStr(<<>>), PyStr(sB), PyStr(sZ), PyInt(<<"7">>), PyInt(<<"0">>)}

NameLikeValues == {PyNone, PyStr(<<>>), PyStr(sC), PyStr(sE), PyInt(<<"7">>)}

\* a pack whose entry playbook A has one task, with any sub-playbook fields
InitFields ==
    /\ local_pbs = <<pA, pB, pC>>
    /\ local_scripts = <<>>
    /\ local_lists = <<>>
    /\ external_indexes = <<ext2>>
    /\ \E i1 \in IdLikeValues, i2 \in IdLikeValues,
          n1 \in NameLikeValues, n2 \in NameLikeValues :
          files = (pA.path :> <<Task([NoFields EXCEPT !.playbookId = i1, !.playbook_id = i2,
                                                    !.playbookName = n1, !.playbook = n2],
                                    <<>>)>>)
                  @@ (pB.path :> <<>>) @@ (pC.path :> <<>>)
    /\ all_files = {}
    /\ root_playbooks = <<pA>>
    /\ cmdline = NoArgs
    /\ yaml_errors = {}
    /\ pc = "start"
    /\ ResultsInit

Spec == Init /\ [][Next]_vars

SpecGraph == InitGraph /\ [][Next]_vars

SpecFields == InitFields /\ [][Next]_vars

(* ----------------------- the resolver on its own ----------------------- *)

\* most objects in an index handed to resolve_in_index on its own
MaxIndexLen == 2

sFooBar == <<"Foo", " ", "Bar">>
sFooBarLower == <<"foo", " ", "bar">>
sFooDashBar == <<"Foo", "-", "Bar">>
sFooBarx == <<"Foo", " ", "Bar", "x">>

ResolverIds == {sA, sB, sFooBar, sFooBarLower}

ResolverNames == {sA, sB, sFooBar, sFooDashBar, sFooBarx}

ResolverValues == {sA, sB, sFooBar, sFooBarLower, sFooBarx}

ResolverObjs == {ScriptDef(rootPack, id, name) : id \in ResolverIds, name \in ResolverNames}

\* indexes: sequences of objects with pairwise different ids
ResolverIndexes ==
    {objs \in UNION {[1..n -> ResolverObjs] : n \in 0..MaxIndexLen} :
        \A i, j \in 1..Len(objs) : i # j => objs[i].id # objs[j].id}

InitResolve ==
    /\ local_pbs = <<>>
    /\ local_scripts = <<>>
    /\ local_lists = <<>>
    /\ external_indexes = <<>>
    /\ files = <<>>
    /\ all_files = {}
    /\ file_text = {}
    /\ root_playbooks = <<>>
    /\ reachable_pbs = {}
    /\ reachable_scripts = {}
    /\ reachable_lists = {}
    /\ external_refs = <<>>
    /\ queue = <<>>
    /\ pc = "call"
    /\ cur = NoObj
    /\ tidx = 0
    /\ enq_log = <<>>
    /\ deq_log = <<>>
    /\ unused_pbs = {}
    /\ unused_scripts = {}
    /\ unused_lists = {}
    /\ pack_dirs = NoDirs
    /\ fpos = 0
    /\ stderr = <<>>
    /\ first_index = <<>>
    /\ runs = 0
    /\ cmdline = NoArgs
    /\ exit_code = NoExit
    /\ stdout = <<>>
    /\ yaml_errors = {}
    /\ by_key = <<>>
    /\ external_count = 0
    /\ res_value \in ResolverValues
    /\ res_objs \in ResolverIndexes
    /\ res_out = NoObj

Resolve ==
    /\ pc = "call"
    /\ res_out' = resolve_in_index(res_value, res_objs)
    /\ pc' = "ret"
    /\ UNCHANGED <<local_pbs, local_scripts, local_lists, external_indexes, files,
                   all_files, file_text, root_playbooks, reachable_pbs, reachable_scripts,
                   reachable_lists, external_refs, queue, cur, tidx, enq_log, deq_log,
                   unused_pbs, unused_scripts, unused_lists, pack_dirs, fpos, stderr,
                   first_index,
                   runs,
                   cmdline,
                   exit_code,
                   stdout,
                   yaml_errors,
                   by_key,
                   external_count,
                   res_value, res_objs>>

NextResolve == Resolve

SpecResolve == InitResolve /\ [][NextResolve]_vars

(* ------------------------------ indexing ------------------------------- *)

\* str.endswith
EndsWith(s, suffix) ==
    /\ Len(s) >= Len(suffix)
    /\ SubSeq(s, Len(s) - Len(suffix) + 1, Len(s)) = suffix

\* what yaml.safe_load makes of a file: a mapping ("dict") with the keys the
\* indexer reads, another document ("list"), nothing ("none"), or a YAMLError
Doc(kind, tasks, id, name, commonfields) ==
    [kind |-> kind, tasks |-> tasks, id |-> id, name |-> name,
     commonfields |-> commonfields]

EmptyDoc == Doc("dict", PyNone, PyNone, PyNone, PyNone)

\* a file of a content folder: its name, extension last, and its document
File(name, doc) == [name |-> name, doc |-> doc]

\* the commonfields mapping of a script with the given id
CommonFields(id) == [t |-> "dict", v |-> id]

\* common.get("id")
common_id(common) == IF common.v = <<>> THEN PyNone ELSE PyStr(common.v)

Warning(msg, id, path, already) ==
    [msg |-> msg, id |-> id, path |-> path, already |-> already]

\* yaml.safe_load(text) or {}, and {} after a YAMLError
load_yaml(f) == IF f.doc.kind \in {"error", "none"} THEN EmptyDoc ELSE f.doc

load_yaml_warnings(f, path) ==
    IF f.doc.kind = "error"
    THEN <<Warning("Failed to parse YAML", <<>>, path, <<>>)>>
    ELSE <<>>

\* res[key] = obj: a key the dict has keeps its place and gets the new value
DictSet(res, obj) ==
    IF HasKey(res, obj.id)
    THEN [i \in 1..Len(res) |-> IF res[i].id = obj.id THEN obj ELSE res[i]]
    ELSE Append(res, obj)

is_playbook_name(name) ==
    EndsWith(Lower(name), <<".yml">>) \/ EndsWith(Lower(name), <<".yaml">>)

has_tasks_nonEmpty(data) == IsDict(data.tasks) /\ Truthy(data.tasks)

\* "tasks" in data and isinstance(data["tasks"], dict)
has_tasks(data) == IsDict(data.tasks)

\* the file passes every `continue` of discover_playbooks
is_playbook(f) ==
    /\ is_playbook_name(f.name)
    /\ load_yaml(f).kind = "dict"
    /\ has_tasks(load_yaml(f))
    /\ Truthy(load_yaml(f).id)

playbook_of(f, pack_root) ==
    LET data == load_yaml(f)
    IN  ObjectDef("playbook", data.id.v, Or(data.name, data.id).v,
                  pack_root \o <<"/Playbooks/">> \o f.name, pack_root)

\* one iteration of the loop of discover_playbooks
discover_playbooks_file(res, f, pack_root) ==
    IF is_playbook(f) THEN DictSet(res, playbook_of(f, pack_root)) ELSE res

discover_playbooks_warnings(res, f, pack_root) ==
    LET path == pack_root \o <<"/Playbooks/">> \o f.name
    IN  (IF is_playbook_name(f.name) THEN load_yaml_warnings(f, path) ELSE <<>>)
        \o (IF is_playbook(f) /\ HasKey(res, load_yaml(f).id.v)
            THEN <<Warning("duplicate playbook id", load_yaml(f).id.v, path,
                           Get(res, load_yaml(f).id.v).path)>>
            ELSE <<>>)

\* endswith((".yml", "..yaml"))
is_script_name(name) ==
    EndsWith(Lower(name), <<".yml">>) \/ EndsWith(Lower(name), <<".", ".yaml">>)

script_id(data) == common_id(Or(data.commonfields, PyEmptyDict))

\* common.get("id") on a commonfields value that is not a mapping: the
\* AttributeError is caught nowhere
script_raises(f) ==
    /\ is_script_name(f.name)
    /\ load_yaml(f).kind = "dict"
    /\ Truthy(load_yaml(f).commonfields)
    /\ ~IsDict(load_yaml(f).commonfields)

is_script(f) ==
    /\ is_script_name(f.name)
    /\ load_yaml(f).kind = "dict"
    /\ ~script_raises(f)
    /\ Truthy(script_id(load_yaml(f)))

script_of(f, pack_root) ==
    LET data == load_yaml(f)
    IN  ObjectDef("script", script_id(data).v, Or(data.name, script_id(data)).v,
                  pack_root \o <<"/Scripts/">> \o f.name, pack_root)

\* one iteration of the loop of discover_scripts
discover_scripts_file(res, f, pack_root) ==
    IF is_script(f) THEN DictSet(res, script_of(f, pack_root)) ELSE res

discover_scripts_warnings(res, f, pack_root) ==
    LET path == pack_root \o <<"/Scripts/">> \o f.name
    IN  (IF is_script_name(f.name) THEN load_yaml_warnings(f, path) ELSE <<>>)
        \o (IF is_script(f) /\ HasKey(res, script_id(load_yaml(f)).v)
            THEN <<Warning("duplicate script id", script_id(load_yaml(f)).v, path,
                           Get(res, script_id(load_yaml(f)).v).path)>>
            ELSE <<>>)

\* the file name without extension and without a trailing "_data"
list_base(name) ==
    LET fname == splitext(name)[1]
    IN  IF EndsWith(fname, <<"_data">>) THEN SubSeq(fname, 1, Len(fname) - 1) ELSE fname

is_list_name(name) == LowerChar(splitext(name)[2]) \in {".json", ".yml", ".yaml"}

is_yaml_list(name) == LowerChar(splitext(name)[2]) \in {".yml", ".yaml"}

\* the file is read: it has a list extension and its base is not in the index
list_is_new(res, f) == is_list_name(f.name) /\ ~HasKey(res, list_base(f.name))

\* the name a list file gives: the `name` of a YAML mapping, or the base
list_name_of(f) ==
    IF is_yaml_list(f.name) /\ load_yaml(f).kind = "dict"
    THEN Or(load_yaml(f).name, PyStr(list_base(f.name))).v
    ELSE list_base(f.name)

list_of(f, pack_root) ==
    ObjectDef("list", list_name_of(f), list_name_of(f),
              pack_root \o <<"/Lists/">> \o f.name, pack_root)

\* one iteration of the loop of discover_lists
discover_lists_file(res, f, pack_root) ==
    IF list_is_new(res, f) THEN DictSet(res, list_of(f, pack_root)) ELSE res

discover_lists_warnings(res, f, pack_root) ==
    IF list_is_new(res, f) /\ is_yaml_list(f.name)
    THEN load_yaml_warnings(f, pack_root \o <<"/Lists/">> \o f.name)
    ELSE <<>>

\* what index_pack leaves alone
crawl_state ==
    <<external_indexes, files, all_files, file_text, root_playbooks, reachable_pbs,
      reachable_scripts, reachable_lists, external_refs, queue, cur, tidx, enq_log,
      deq_log, unused_pbs, unused_scripts, unused_lists, first_index,
      runs,
      cmdline,
      exit_code,
      stdout,
      yaml_errors,
      by_key,
      external_count,
      res_value, res_objs, res_out>>

DiscoverPlaybooksStep ==
    /\ pc = "discover_playbooks"
    /\ fpos < Len(pack_dirs.Playbooks)
    /\ LET f == pack_dirs.Playbooks[fpos + 1]
       IN  /\ local_pbs' = discover_playbooks_file(local_pbs, f, rootPack)
           /\ stderr' = stderr \o discover_playbooks_warnings(local_pbs, f, rootPack)
    /\ fpos' = fpos + 1
    /\ UNCHANGED <<crawl_state, pc, pack_dirs, local_scripts, local_lists>>

DiscoverScriptsStep ==
    /\ pc = "discover_scripts"
    /\ fpos < Len(pack_dirs.Scripts)
    /\ LET f == pack_dirs.Scripts[fpos + 1]
       IN  IF script_raises(f)
           THEN /\ pc' = "crashed"
                /\ stderr' = Append(stderr,
                       Warning("Traceback: AttributeError", <<>>,
                               rootPack \o <<"/Scripts/">> \o f.name, <<>>))
                /\ UNCHANGED <<local_scripts, fpos>>
           ELSE /\ local_scripts' = discover_scripts_file(local_scripts, f, rootPack)
                /\ stderr' =
                      stderr \o discover_scripts_warnings(local_scripts, f, rootPack)
                /\ fpos' = fpos + 1
                /\ pc' = pc
    /\ UNCHANGED <<crawl_state, pack_dirs, local_pbs, local_lists>>

DiscoverListsStep ==
    /\ pc = "discover_lists"
    /\ fpos < Len(pack_dirs.Lists)
    /\ LET f == pack_dirs.Lists[fpos + 1]
       IN  /\ local_lists' = discover_lists_file(local_lists, f, rootPack)
           /\ stderr' = stderr \o discover_lists_warnings(local_lists, f, rootPack)
    /\ fpos' = fpos + 1
    /\ UNCHANGED <<crawl_state, pc, pack_dirs, local_pbs, local_scripts>>

\* a discover_* function comes to the end of its folder and returns
DiscoverReturn ==
    /\ \/ pc = "discover_playbooks" /\ fpos = Len(pack_dirs.Playbooks)
             /\ pc' = "discover_scripts"
       \/ pc = "discover_scripts" /\ fpos = Len(pack_dirs.Scripts)
             /\ pc' = "discover_lists"
       \/ pc = "discover_lists" /\ fpos = Len(pack_dirs.Lists)
             /\ pc' = "indexed"
    /\ fpos' = 0
    /\ UNCHANGED <<crawl_state, pack_dirs, stderr, local_pbs, local_scripts, local_lists>>

\* what neither index_pack nor a second call of it touches
crawl_only ==
    <<external_indexes, files, all_files, file_text, root_playbooks, reachable_pbs,
      reachable_scripts, reachable_lists, external_refs, queue, cur, tidx, enq_log,
      deq_log, unused_pbs, unused_scripts, unused_lists, cmdline, yaml_errors, by_key,
      external_count,
      exit_code, stdout,
      res_value, res_objs, res_out>>

Reverse(fs) == [i \in 1..Len(fs) |-> fs[Len(fs) + 1 - i]]

IndexAgain_otherListing ==
    /\ pc = "indexed"
    /\ runs = 1
    /\ first_index' = <<local_pbs, local_scripts, local_lists>>
    /\ runs' = 2
    /\ local_pbs' = <<>>
    /\ local_scripts' = <<>>
    /\ local_lists' = <<>>
    /\ pc' = "discover_playbooks"
    /\ fpos' = 0
    /\ pack_dirs' = [Playbooks |-> Reverse(pack_dirs.Playbooks),
                     Scripts |-> Reverse(pack_dirs.Scripts),
                     Lists |-> Reverse(pack_dirs.Lists)]
    /\ UNCHANGED <<crawl_only, stderr>>

\* index_pack is called on the same pack once more: each discover_* starts
\* from an empty dict of its own and reads the same folders
IndexAgain ==
    /\ pc = "indexed"
    /\ runs = 1
    /\ first_index' = <<local_pbs, local_scripts, local_lists>>
    /\ runs' = 2
    /\ local_pbs' = <<>>
    /\ local_scripts' = <<>>
    /\ local_lists' = <<>>
    /\ pc' = "discover_playbooks"
    /\ fpos' = 0
    /\ UNCHANGED <<crawl_only, pack_dirs, stderr>>

NextIndex ==
    \/ DiscoverPlaybooksStep
    \/ DiscoverScriptsStep
    \/ DiscoverListsStep
    \/ DiscoverReturn
    \/ IndexAgain

\* most files in one content folder
MaxDirFiles == 2

sNameA == <<"n", "A">>

PbDoc(tasks, id, name) == Doc("dict", tasks, id, name, PyNone)

\* files of a Playbooks folder: two playbooks with id A, one with an empty
\* tasks mapping, and files that lack something
PlaybookFiles ==
    {File(<<"A", ".yml">>, PbDoc(PyDict, PyStr(sA), PyStr(sNameA))),
     File(<<"A2", ".yaml">>, PbDoc(PyDict, PyStr(sA), PyNone)),
     File(<<"B", ".YML">>, PbDoc(PyEmptyDict, PyStr(sB), PyStr(<<>>))),
     File(<<"C", ".yml">>, PbDoc(PyList, PyStr(sC), PyStr(sC))),
     File(<<"D", ".yml">>, PbDoc(PyDict, PyNone, PyStr(sA))),
     File(<<"E", ".yml">>, PbDoc(PyDict, PyStr(<<>>), PyStr(sE))),
     File(<<"N", ".yml">>, PbDoc(PyNone, PyStr(sA), PyStr(sA))),
     File(<<"F", ".yml">>, Doc("error", PyNone, PyNone, PyNone, PyNone)),
     File(<<"G", ".yml">>, Doc("list", PyNone, PyNone, PyNone, PyNone)),
     File(<<"H", ".yml">>, Doc("none", PyNone, PyNone, PyNone, PyNone)),
     File(<<"A", ".json">>, PbDoc(PyDict, PyStr(sC), PyStr(sC)))}

ScDoc(commonfields, name) == Doc("dict", PyNone, PyNone, name, commonfields)

\* files of a Scripts folder
ScriptFiles ==
    {File(<<"S1", ".yml">>, ScDoc(CommonFields(sS1), PyStr(sNameS1))),
     File(<<"S1b", ".yml">>, ScDoc(CommonFields(sS1), PyNone)),
     File(<<"S2", ".yaml">>, ScDoc(CommonFields(<<"S2">>), PyStr(<<"S2">>))),
     File(<<"S3", ".", ".yaml">>, ScDoc(CommonFields(<<"S3">>), PyStr(<<>>))),
     File(<<"S4", ".yml">>, Doc("dict", PyNone, PyStr(<<"S4">>), PyStr(<<"S4">>), PyNone)),
     File(<<"S5", ".yml">>, ScDoc(PyEmptyDict, PyStr(<<"S5">>))),
     File(<<"S6", ".yml">>, Doc("error", PyNone, PyNone, PyNone, PyNone)),
     File(<<"S7", ".yml">>, Doc("list", PyNone, PyNone, PyNone, PyNone)),
     File(<<"S8", ".yml">>, ScDoc(PyStr(<<"x">>), PyStr(<<"S8">>)))}

NamedDoc(name) == Doc("dict", PyNone, PyNone, name, PyNone)

sFoo == <<"Foo">>
sBar == <<"Bar">>

\* files of a Lists folder: the two JSON files of list Foo, YAML definitions
\* with and without a name, and a file that is not a list
ListFiles ==
    {File(<<"Foo", ".json">>, EmptyDoc),
     File(<<"Foo", "_data", ".json">>, EmptyDoc),
     File(<<"Foo", ".yml">>, NamedDoc(PyNone)),
     File(<<"Bar", ".yml">>, NamedDoc(PyStr(sFoo))),
     File(<<"Bar", ".yaml">>, NamedDoc(PyStr(<<>>))),
     File(<<"Bar", "_data", ".JSON">>, EmptyDoc),
     File(<<"Foo", ".txt">>, EmptyDoc),
     File(<<"Baz", ".yml">>, Doc("error", PyNone, PyNone, PyNone, PyNone)),
     File(<<"Qux", ".yml">>, Doc("list", PyNone, PyNone, PyNone, PyNone))}

\* the orders in which os.walk can list up to n different files of a folder
FileSeqs(U, n) ==
    {fs \in UNION {[1..k -> U] : k \in 0..n} :
        \A i, j \in 1..Len(fs) : i # j => fs[i].name # fs[j].name}

\* index_pack is called on a pack in which one content folder has files
InitIndex ==
    /\ pack_dirs \in
          {[NoDirs EXCEPT !.Playbooks = fs] : fs \in FileSeqs(PlaybookFiles, MaxDirFiles)}
          \cup {[NoDirs EXCEPT !.Scripts = fs] : fs \in FileSeqs(ScriptFiles, MaxDirFiles)}
          \cup {[NoDirs EXCEPT !.Lists = fs] : fs \in FileSeqs(ListFiles, MaxDirFiles)}
    /\ fpos = 0
    /\ stderr = <<>>
    /\ pc = "discover_playbooks"
    /\ local_pbs = <<>>
    /\ local_scripts = <<>>
    /\ local_lists = <<>>
    /\ external_indexes = <<>>
    /\ files = <<>>
    /\ all_files = {}
    /\ file_text = {}
    /\ root_playbooks = <<>>
    /\ reachable_pbs = {}
    /\ reachable_scripts = {}
    /\ reachable_lists = {}
    /\ external_refs = <<>>
    /\ queue = <<>>
    /\ cur = NoObj
    /\ tidx = 0
    /\ enq_log = <<>>
    /\ deq_log = <<>>
    /\ unused_pbs = {}
    /\ unused_scripts = {}
    /\ unused_lists = {}
    /\ first_index = <<>>
    /\ runs = 1
    /\ cmdline = NoArgs
    /\ exit_code = NoExit
    /\ stdout = <<>>
    /\ yaml_errors = {}
    /\ by_key = <<>>
    /\ external_count = 0
    /\ res_value = <<>>
    /\ res_objs = <<>>
    /\ res_out = NoObj

SpecIndex == InitIndex /\ [][NextIndex]_vars

(* ------------------------------- main ---------------------------------- *)

\* an --other-pack argument: the path, whether it is a directory, and what
\* index_pack does there
OtherPack(path, isdir, index) == [path |-> path, isdir |-> isdir, index |-> index]

Traceback(path) == Warning("Traceback", <<>>, path, <<>>)

\* the loop over args.other_pack from position k on; acc holds external_indexes,
\* the lines added to stderr and stdout, and whether index_pack raised
RECURSIVE index_other_packs_keepMissing(_, _, _)
index_other_packs_keepMissing(ps, k, acc) ==
    IF k > Len(ps) THEN acc
    ELSE IF ps[k].index.raises
         THEN [acc EXCEPT !.out = Append(@, "Indexing external pack"),
                          !.err = Append(@, Traceback(ps[k].path)),
                          !.raised = TRUE]
         ELSE index_other_packs_keepMissing(ps, k + 1,
                  [acc EXCEPT !.out = Append(@, "Indexing external pack"),
                              !.ext = Append(@, [pack |-> ps[k].path,
                                                 pbs |-> ps[k].index.pbs,
                                                 scripts |-> ps[k].index.scripts,
                                                 lists |-> ps[k].index.lists])])

RECURSIVE index_other_packs(_, _, _)
index_other_packs(ps, k, acc) ==
    IF k > Len(ps) THEN acc
    ELSE IF ~ps[k].isdir
         THEN index_other_packs(ps, k + 1,
                  [acc EXCEPT !.err = Append(@, Warning("WARNING: other pack not found",
                                                        <<>>, ps[k].path, <<>>))])
         ELSE IF ps[k].index.raises
              THEN [acc EXCEPT !.out = Append(@, "Indexing external pack"),
                               !.err = Append(@, Traceback(ps[k].path)),
                               !.raised = TRUE]
              ELSE index_other_packs(ps, k + 1,
                       [acc EXCEPT !.out = Append(@, "Indexing external pack"),
                                   !.ext = Append(@, [pack |-> ps[k].path,
                                                      pbs |-> ps[k].index.pbs,
                                                      scripts |-> ps[k].index.scripts,
                                                      lists |-> ps[k].index.lists])])

\* the first playbook of local_pbs.values() whose name is rname, or None
find_by_name(pbs, rname) ==
    IF \E i \in 1..Len(pbs) : pbs[i].name = rname
    THEN pbs[CHOOSE i \in 1..Len(pbs) :
                 /\ pbs[i].name = rname
                 /\ \A j \in 1..(i - 1) : pbs[j].name # rname]
    ELSE NoObj

\* the positions of the --root-playbook-id / -name arguments that are not found
MissingIds(pbs, ids) == {i \in 1..Len(ids) : ~HasKey(pbs, ids[i])}

MissingNames(pbs, names) == {i \in 1..Len(names) : find_by_name(pbs, names[i]) = NoObj}

First(S) == CHOOSE i \in S : \A j \in S : i <= j

\* what stays as it is until the crawl starts
before_crawl ==
    <<files, all_files, file_text, reachable_pbs, reachable_scripts, reachable_lists,
      external_refs, queue, cur, tidx, enq_log, deq_log, unused_pbs, unused_scripts,
      unused_lists, pack_dirs, fpos, first_index, runs, cmdline, yaml_errors, by_key,
      external_count,
      res_value, res_objs, res_out>>

\* main: the root pack is checked and indexed
MainStart ==
    /\ pc = "main"
    /\ IF ~cmdline.root_pack_isdir
       THEN /\ stderr' = Append(stderr, Warning("ERROR: root pack not found", <<>>,
                                                rootPack, <<>>))
            /\ exit_code' = 1
            /\ pc' = "exited"
            /\ UNCHANGED <<stdout, local_pbs, local_scripts, local_lists>>
       ELSE /\ stdout' = Append(stdout, "Indexing root pack")
            /\ IF cmdline.root_pack.raises
               THEN /\ stderr' = Append(stderr, Traceback(rootPack))
                    /\ exit_code' = 1
                    /\ pc' = "exited"
                    /\ UNCHANGED <<local_pbs, local_scripts, local_lists>>
               ELSE /\ local_pbs' = cmdline.root_pack.pbs
                    /\ local_scripts' = cmdline.root_pack.scripts
                    /\ local_lists' = cmdline.root_pack.lists
                    /\ pc' = "other_packs"
                    /\ UNCHANGED <<stderr, exit_code>>
    /\ UNCHANGED <<before_crawl, external_indexes, root_playbooks>>

\* main: the loop over the --other-pack arguments
IndexOtherPacks_keepMissing ==
    /\ pc = "other_packs"
    /\ LET r == index_other_packs_keepMissing(cmdline.other_pack, 1,
                    [ext |-> <<>>, err |-> <<>>, out |-> <<>>, raised |-> FALSE])
       IN  /\ external_indexes' = r.ext
           /\ stderr' = stderr \o r.err
           /\ stdout' = stdout \o r.out
           /\ IF r.raised
              THEN exit_code' = 1 /\ pc' = "exited"
              ELSE pc' = "roots" /\ UNCHANGED exit_code
    /\ UNCHANGED <<before_crawl, local_pbs, local_scripts, local_lists, root_playbooks>>

IndexOtherPacks ==
    /\ pc = "other_packs"
    /\ LET r == index_other_packs(cmdline.other_pack, 1,
                    [ext |-> <<>>, err |-> <<>>, out |-> <<>>, raised |-> FALSE])
       IN  /\ external_indexes' = r.ext
           /\ stderr' = stderr \o r.err
           /\ stdout' = stdout \o r.out
           /\ IF r.raised
              THEN exit_code' = 1 /\ pc' = "exited"
              ELSE pc' = "roots" /\ UNCHANGED exit_code
    /\ UNCHANGED <<before_crawl, local_pbs, local_scripts, local_lists, root_playbooks>>

\* main: the roots named by id, then the roots named by name; without any the
\* run ends here
ResolveRoots_unchecked ==
    /\ pc = "roots"
    /\ LET ids == cmdline.root_playbook_id
           names == cmdline.root_playbook_name
           found == [i \in 1..Len(ids) |-> Get(local_pbs, ids[i])]
                    \o [i \in 1..Len(names) |-> find_by_name(local_pbs, names[i])]
       IN  /\ root_playbooks' = SelectSeq(found, LAMBDA o : o # NoObj)
           /\ stdout' = Append(stdout, "Root playbooks")
           /\ pc' = "start"
           /\ UNCHANGED <<stderr, exit_code>>
    /\ UNCHANGED <<before_crawl, local_pbs, local_scripts, local_lists, external_indexes>>

ResolveRoots ==
    /\ pc = "roots"
    /\ LET ids == cmdline.root_playbook_id
           names == cmdline.root_playbook_name
           noId == MissingIds(local_pbs, ids)
           noName == MissingNames(local_pbs, names)
       IN  IF noId # {}
           THEN /\ stderr' = Append(stderr, Warning("ERROR: root playbook id not found",
                                                    ids[First(noId)], rootPack, <<>>))
                /\ exit_code' = 1
                /\ pc' = "exited"
                /\ UNCHANGED <<root_playbooks, stdout>>
           ELSE IF noName # {}
           THEN /\ stderr' = Append(stderr, Warning("ERROR: root playbook name not found",
                                                    names[First(noName)], rootPack, <<>>))
                /\ exit_code' = 1
                /\ pc' = "exited"
                /\ UNCHANGED <<root_playbooks, stdout>>
           ELSE IF Len(ids) + Len(names) = 0
           THEN /\ stderr' = Append(stderr, Warning("ERROR: no root playbooks specified",
                                                    <<>>, rootPack, <<>>))
                /\ exit_code' = 1
                /\ pc' = "exited"
                /\ UNCHANGED <<root_playbooks, stdout>>
           ELSE /\ root_playbooks' =
                      [i \in 1..Len(ids) |-> Get(local_pbs, ids[i])]
                      \o [i \in 1..Len(names) |-> find_by_name(local_pbs, names[i])]
                /\ stdout' = Append(stdout, "Root playbooks")
                /\ pc' = "start"
                /\ UNCHANGED <<stderr, exit_code>>
    /\ UNCHANGED <<before_crawl, local_pbs, local_scripts, local_lists, external_indexes>>

NextMain ==
    \/ MainStart
    \/ IndexOtherPacks
    \/ ResolveRoots
    \/ CrawlStart
    \/ Dequeue
    \/ ProcessTask
    \/ CrawlReturn
    \/ Report

\* most --other-pack arguments
MaxOtherPacks == 3

goneDir == <<"Packs/gone">>

OtherPacks ==
    {OtherPack(ext1.pack, TRUE, PackIndex(FALSE, ext1.pbs, ext1.scripts, ext1.lists)),
     OtherPack(ext2.pack, TRUE, PackIndex(FALSE, ext2.pbs, ext2.scripts, ext2.lists)),
     OtherPack(goneDir, FALSE, PackIndex(FALSE, <<>>, <<>>, <<>>)),
     OtherPack(<<"Packs/bad">>, TRUE, PackIndex(TRUE, <<>>, <<>>, <<>>))}

\* --other-pack given up to MaxOtherPacks times, each time with another path
OtherPackArgs ==
    {ps \in TaskSeqs(OtherPacks, MaxOtherPacks) :
        \A i, j \in 1..Len(ps) : i # j => ps[i] # ps[j]}

\* the playbooks of the root pack: each references the next, by name or by
\* id, and each references objects that only the external packs define
MainFiles ==
    (pA.path :> <<PbTask(PyNone, PyStr(sNameB)), ScriptTask(PyStr(sSE)),
                  ScriptTask(PyStr(sSE)), ScriptTask(PyStr(<<"Print">>))>>)
    @@ (pB.path :> <<PbTask(PyStr(sC), PyNone), ListTask(<<"list">>, PyStr(sLE)),
                     ScriptTask(PyStr(sNameS1)), ScriptTask(PyStr(<<"GetTime">>)),
                     ScriptTask(PyStr(<<"Builtin|||", "x">>))>>)
    @@ (pC.path :> <<PbTask(PyStr(sA), PyNone), ScriptTask(PyStr(sSE)),
                     PbTask(PyStr(sE), PyNone), ListTask(<<"list">>, PyStr(sL1)),
                     ScriptTask(PyStr(<<"Print">>)), ScriptTask(PyStr(<<"MySet">>))>>)
    @@ extFiles

\* the scripts of the root pack: S1, and scripts whose id or name is on the
\* allow-list of script references or starts with the built-in prefix
MainScripts ==
    <<scS1, scPrint,
      ScriptDef(rootPack, <<"setValueTags">>, <<"GetTime">>),
      ScriptDef(rootPack, <<"MySet">>, <<"Set">>),
      ScriptDef(rootPack, <<"Builtin|||", "x">>, <<"Builtin|||", "x">>)>>

\* a run of the program from its command line
InitMain ==
    /\ local_pbs = <<>>
    /\ local_scripts = <<>>
    /\ local_lists = <<>>
    /\ external_indexes = <<>>
    /\ files = MainFiles
    /\ all_files = {ownFile(liL1), ownFile(liL2), scriptFile}
    /\ root_playbooks = <<>>
    /\ pc = "main"
    /\ ResultsInit
    /\ \E isdir \in BOOLEAN, raises \in BOOLEAN,
          others \in OtherPackArgs,
          ids \in {<<>>, <<sA>>, <<sZ>>, <<sA, sC>>, <<sC, sA>>, <<sA, sZ>>, <<sA, sA>>},
          names \in {<<>>, <<sNameB>>, <<sZ>>},
          errors \in {{}, {pA.path}, {pB.path}} :
          /\ yaml_errors = errors
          /\ raises => isdir
          /\ cmdline = [root_pack_isdir |-> isdir,
                        root_pack |-> PackIndex(raises, <<pA, pB, pC>>, MainScripts,
                                                <<liL1, liL2>>),
                        other_pack |-> others,
                        root_playbook_id |-> ids,
                        root_playbook_name |-> names]

SpecMain == InitMain /\ [][NextMain]_vars

(* ------------------------------ claims --------------------------------- *)

Returned == pc \in {"returned", "done"}

RootIds == {root_playbooks[i].id : i \in 1..Len(root_playbooks)}

NoDup(s) == \A i, j \in 1..Len(s) : i # j => s[i] # s[j]

TasksOf(id) == crawl_tasks(Get(local_pbs, id).path)

\* ids of the local playbooks that the tasks of local playbook `id` reference
SubPlaybooksOf(id) ==
    {resolve_in_index(ref_val(TasksOf(id)[k]), local_pbs).id :
        k \in {n \in 1..Len(TasksOf(id)) :
                 /\ HasSubPbRef(TasksOf(id)[n])
                 /\ resolve_in_index(ref_val(TasksOf(id)[n]), local_pbs) # NoObj}}

\* least set that contains S and is closed under SubPlaybooksOf
RECURSIVE Closure(_)
Closure(S) ==
    LET N == S \cup UNION {SubPlaybooksOf(id) : id \in S}
    IN  IF N = S THEN S ELSE Closure(N)

\* C1: no playbook id is ever enqueued or dequeued twice, and only ids of the
\* local index are dequeued, so the loop runs at most once per playbook of the
\* index, whatever cycles the references form and however often a root is
\* repeated; each task loop stays inside its file; the loop always either
\* dequeues or returns, and it returns with an empty queue.
C1_EnqueuedAndExpandedOnce ==
    /\ NoDup(enq_log)
    /\ NoDup(deq_log)
    /\ \A i \in 1..Len(deq_log) : deq_log[i] \in Keys(local_pbs)
    /\ Len(deq_log) + Len(queue) = Len(enq_log)
    /\ pc = "tasks" => tidx \in 1..Len(files[cur.path])
    /\ pc = "loop" => ENABLED (Dequeue \/ CrawlReturn)
    /\ Returned => queue = <<>> /\ deq_log = enq_log

\* a finished crawl of a pack where A and B reference each other, A references
\* itself and A is given as a root twice
C1_Witness ==
    /\ pc = "done"
    /\ Len(root_playbooks) = 2 /\ root_playbooks[1] = root_playbooks[2]
    /\ HasKey(local_pbs, sA) /\ HasKey(local_pbs, sB)
    /\ {sA, sB} \subseteq SubPlaybooksOf(sA)
    /\ sA \in SubPlaybooksOf(sB)
    /\ deq_log \in {<<sA, sB>>}

\* C2: when the crawl has returned, the reachable playbooks are exactly the
\* least set that contains the root ids and is closed under resolvable
\* sub-playbook references.
C2_ReachableIsLeastClosedSet ==
    Returned => reachable_pbs = Closure(RootIds)

\* a chain A -> B (by name) -> C crawled from A alone, in a pack of three playbooks
C2_Witness ==
    /\ pc = "done"
    /\ root_playbooks = <<pA>>
    /\ Len(local_pbs) = 3
    /\ SubPlaybooksOf(sA) = {sB}
    /\ \E k \in 1..Len(TasksOf(sA)) : ref_val(TasksOf(sA)[k]) = sNameB
    /\ SubPlaybooksOf(sB) = {sC}
    /\ reachable_pbs = {sA, sB, sC}

Kinds == {"playbook", "script", "list"}

LocalIndex(kind) ==
    CASE kind = "playbook" -> local_pbs
      [] kind = "script" -> local_scripts
      [] kind = "list" -> local_lists

ReachableSet(kind) ==
    CASE kind = "playbook" -> reachable_pbs
      [] kind = "script" -> reachable_scripts
      [] kind = "list" -> reachable_lists

\* some object of the index has exactly this id or this name
NamedIn(objs, value) ==
    \E i \in 1..Len(objs) : objs[i].id = value \/ objs[i].name = value

\* built-in by prefix, or on the allow-list
SkippedScriptValue(v) ==
    \/ Len(v) >= 1 /\ v[1] = "Builtin|||"
    \/ v \in EXCEPTION_EXTERNAL_SCRIPT_REFS

\* the references the crawl is to follow in the file of local playbook `id`:
\* kind, literal value, task and (for lists) argument position
RefOccurrences(id) ==
    LET tasks == TasksOf(id)
    IN  {[kind |-> "playbook", value |-> ref_val(tasks[k]), tid |-> k, arg |-> 0] :
            k \in {n \in 1..Len(tasks) : HasSubPbRef(tasks[n])}}
        \cup
        {[kind |-> "script", value |-> script_ref(tasks[k]).v, tid |-> k, arg |-> 0] :
            k \in {n \in 1..Len(tasks) :
                     /\ HasScriptRef(tasks[n])
                     /\ ~SkippedScriptValue(script_ref(tasks[n]).v)}}
        \cup
        UNION {{[kind |-> "list", value |-> tasks[k].scriptarguments[j].val.v,
                 tid |-> k, arg |-> j] :
                   j \in {m \in 1..Len(tasks[k].scriptarguments) :
                            ArgIsListRef(tasks[k].scriptarguments[m])}} :
               k \in 1..Len(tasks)}

\* ids of the local objects of a kind that the reachable playbooks reference
ReferencedLocalIds(kind) ==
    UNION {{resolve_in_index(o.value, LocalIndex(kind)).id :
               o \in {x \in RefOccurrences(id) :
                        x.kind = kind /\ NamedIn(LocalIndex(kind), x.value)}} :
           id \in reachable_pbs}

ChainScenario ==
    /\ files[pA.path] = <<PbTask(PyStr(sB), PyStr(sA))>>
    /\ files[pB.path] = <<ScriptTask(PyStr(sS1))>>
    /\ root_playbooks = <<pA>>

\* C3: when the crawl has returned, the reachable scripts are exactly the ids
\* of the local scripts that non-skipped script references of reachable
\* playbooks resolve to, the reachable lists are exactly the ids of the local
\* lists that list arguments of reachable playbooks resolve to, and the chain
\* A -> B -> S1 crawled from A gives playbooks {A, B}, scripts {S1} and no
\* external reference.
C3_ReachableScriptsAndLists ==
    Returned =>
        /\ reachable_scripts = ReferencedLocalIds("script")
        /\ reachable_lists = ReferencedLocalIds("list")
        /\ ChainScenario =>
              /\ reachable_pbs = {sA, sB}
              /\ reachable_scripts = {sS1}
              /\ reachable_lists = {}
              /\ external_refs = <<>>

\* the chain A -> B -> S1 has been crawled and reported
C3_Witness ==
    /\ pc = "done"
    /\ ChainScenario
    /\ reachable_scripts = {sS1}

ExternalPacksNaming(kind, value) ==
    {i \in 1..Len(external_indexes) : NamedIn(ExtIndexOf(external_indexes[i], kind), value)}

HasRecord(kind, value, file, tid, pack) ==
    \E n \in 1..Len(external_refs) :
        /\ external_refs[n].ref_type = kind
        /\ external_refs[n].value = value
        /\ external_refs[n].file = file
        /\ external_refs[n].context.tid = tid
        /\ external_refs[n].resolved_pack = pack

\* C4: when the crawl has returned, every non-skipped reference in a reachable
\* playbook whose value names no object of its kind in the local index nor in
\* any external pack has an ExternalRef record of that kind with the literal
\* value and resolved_pack UNKNOWN, and the value is not in the reachable set of
\* its kind (nor in any reachable set when no local index names it).
C4_UnresolvedIsRecordedUnknown ==
    Returned =>
        \A id \in reachable_pbs : \A o \in RefOccurrences(id) :
            (/\ ~NamedIn(LocalIndex(o.kind), o.value)
             /\ ExternalPacksNaming(o.kind, o.value) = {})
            => /\ HasRecord(o.kind, o.value, Get(local_pbs, id).path, o.tid, UNKNOWN)
               /\ o.value \notin ReachableSet(o.kind)
               /\ (\A k \in Kinds : ~NamedIn(LocalIndex(k), o.value))
                     => \A k \in Kinds : o.value \notin ReachableSet(k)

\* one task referenced Z as playbook, script and list while external packs were
\* supplied: three UNKNOWN records
C4_Witness ==
    /\ pc = "done"
    /\ external_indexes # <<>>
    /\ \A k \in Kinds : HasRecord(k, sZ, pA.path, 1, UNKNOWN)

\* C5: no ExternalRef record ever carries a value that names an object of its
\* kind in the local index, also when external packs define that id or name.
C5_LocalityWins ==
    \A n \in 1..Len(external_refs) :
        ~NamedIn(LocalIndex(external_refs[n].ref_type), external_refs[n].value)

\* playbook B, script S1 and list L1 are defined locally and in the first
\* external pack; all three were referenced and none was recorded as external
C5_Witness ==
    /\ pc = "done"
    /\ external_indexes = <<ext1, ext2>>
    /\ \A k \in Kinds : ExternalPacksNaming(k, IF k = "playbook" THEN sB
                                              ELSE IF k = "script" THEN sS1 ELSE sL1) # {}
    /\ sB \in reachable_pbs /\ sS1 \in reachable_scripts /\ sL1 \in reachable_lists
    /\ external_refs = <<>>

\* C6: the resolved_pack of every ExternalRef record is the first pack, in the
\* order the external indexes were supplied, that names the value; UNKNOWN when
\* none does.
C6_FirstExternalPackWins ==
    \A n \in 1..Len(external_refs) :
        LET r == external_refs[n]
            S == ExternalPacksNaming(r.ref_type, r.value)
        IN  IF S = {}
            THEN r.resolved_pack = UNKNOWN
            ELSE r.resolved_pack =
                    external_indexes[CHOOSE i \in S : \A j \in S : i <= j].pack

\* E is defined by both external packs, and the second pack is listed first
C6_Witness ==
    /\ pc = "done"
    /\ external_indexes = <<ext2, ext1>>
    /\ ExternalPacksNaming("playbook", sE) = {1, 2}
    /\ HasRecord("playbook", sE, pA.path, 1, extPack2)
    /\ HasRecord("list", sLE, pA.path, 2, extPack2)

FirstTask == files[pA.path][1].task

NonEmptyStr(x) == x.t = "str" /\ x.v # <<>>

AbsentOrEmpty(x) == x = PyNone \/ x = PyStr(<<>>)

\* what a finished crawl of the one-task playbook A shows when the value v was
\* the one resolved: its local target reachable, or one record with v
UsedAsReference(v) ==
    IF NamedIn(local_pbs, v)
    THEN /\ reachable_pbs = {sA, resolve_in_index(v, local_pbs).id}
         /\ external_refs = <<>>
    ELSE /\ reachable_pbs = {sA}
         /\ Len(external_refs) = 1
         /\ external_refs[1].ref_type = "playbook"
         /\ external_refs[1].value = v
         /\ external_refs[1].resolved_pack =
               (IF ExternalPacksNaming("playbook", v) = {} THEN UNKNOWN
                ELSE external_indexes[CHOOSE i \in ExternalPacksNaming("playbook", v) :
                        \A j \in ExternalPacksNaming("playbook", v) : i <= j].pack)

\* C7: a task that carries a non-empty string id-like field (playbookId or
\* playbook_id) and a name-like field (playbookName or playbook) is resolved
\* by an id-like value, locally, externally and in the record; a name-like
\* value is the one used only when both id-like fields are absent or empty.
C7_IdLikeFieldTakesPrecedence ==
    pc = "done" =>
        /\ (/\ NonEmptyStr(FirstTask.playbookId) \/ NonEmptyStr(FirstTask.playbook_id)
            /\ FirstTask.playbookName # PyNone \/ FirstTask.playbook # PyNone)
           => \E x \in {FirstTask.playbookId, FirstTask.playbook_id} :
                 NonEmptyStr(x) /\ UsedAsReference(x.v)
        /\ (\E x \in {FirstTask.playbookName, FirstTask.playbook} :
               NonEmptyStr(x) /\ UsedAsReference(x.v))
           => AbsentOrEmpty(FirstTask.playbookId) /\ AbsentOrEmpty(FirstTask.playbook_id)

\* C8: resolve_in_index returns an object of the index whose id or name is
\* exactly the value, and returns None exactly when no object of the index
\* has that id or that name.
C8_ExactMatchOnly ==
    pc = "ret" =>
        /\ res_out # NoObj =>
              /\ \E i \in 1..Len(res_objs) : res_objs[i] = res_out
              /\ res_out.id = res_value \/ res_out.name = res_value
        /\ res_out = NoObj <=> ~NamedIn(res_objs, res_value)

\* "Foo Bar" is looked up in an index that holds "foo bar", "Foo-Bar" and
\* "Foo Barx" only: None
C8_Witness ==
    /\ pc = "ret"
    /\ res_value = sFooBar
    /\ Len(res_objs) = 2
    /\ res_objs[1].id = sFooBarLower /\ res_objs[1].name = sFooDashBar
    /\ res_objs[2].name = sFooBarx
    /\ res_out = NoObj

\* C9: when some object of the index has the value as its id, that object is
\* the result, also when an object earlier in the index has the value as its
\* name; a name match is returned only when no object has that id.
C9_IdBeforeName ==
    pc = "ret" =>
        \A i \in 1..Len(res_objs) : res_objs[i].id = res_value => res_out = res_objs[i]

\* the value is the name of the first object and the id of the second
C9_Witness ==
    /\ pc = "ret"
    /\ Len(res_objs) = 2
    /\ res_objs[1].name = res_value /\ res_objs[1].id # res_value
    /\ res_objs[2].id = res_value
    /\ res_out = res_objs[2]

Exceptions(kind) ==
    CASE kind = "playbook" -> EXCEPTION_LOCAL_PLAYBOOK_IDS
      [] kind = "script" -> EXCEPTION_LOCAL_SCRIPT_IDS
      [] kind = "list" -> EXCEPTION_LOCAL_LIST_IDS

NotNeededSet(kind) ==
    CASE kind = "playbook" -> unused_pbs
      [] kind = "script" -> unused_scripts
      [] kind = "list" -> unused_lists

\* C10: in the report, every id of the local index of each kind is in the
\* reachable (keep) set, the not-needed set or the exception set of its kind.
C10_PartitionCovers ==
    pc = "done" =>
        \A k \in Kinds :
            Keys(LocalIndex(k)) \subseteq
                (ReachableSet(k) \cup NotNeededSet(k) \cup Exceptions(k))

\* C11 as stated: in the report no id of the local index of any kind is in
\* more than one of the reachable (keep) set, the not-needed set and the
\* exception set; in particular no excepted local object is reachable.
C11_PartitionExclusive ==
    pc = "done" =>
        \A k \in Kinds :
            \A id \in Keys(LocalIndex(k)) :
                /\ ~(id \in ReachableSet(k) /\ id \in NotNeededSet(k))
                /\ ~(id \in NotNeededSet(k) /\ id \in Exceptions(k))
                /\ ~(id \in ReachableSet(k) /\ id \in Exceptions(k))

\* C11, amended: in the report the not-needed set of every kind is disjoint
\* from the reachable (keep) set and from the exception set of that kind, and
\* holds only ids of the local index; an excepted local object that a crawled
\* playbook references is reachable (kept) as well as excepted.
C11_NotNeededIsExclusive ==
    pc = "done" =>
        \A k \in Kinds :
            /\ NotNeededSet(k) \subseteq Keys(LocalIndex(k))
            /\ NotNeededSet(k) \cap ReachableSet(k) = {}
            /\ NotNeededSet(k) \cap Exceptions(k) = {}
            /\ \A id \in Keys(LocalIndex(k)) \cap Exceptions(k) :
                  id \in ReachableSet(k) <=> id \in ReferencedLocalIds(k) \cup
                        (IF k = "playbook" THEN RootIds ELSE {})

\* the excepted playbook is referenced by the entry playbook and kept, while
\* playbook B is reported not needed and the excepted script is in neither set
C11_Witness ==
    /\ pc = "done"
    /\ pComms.id \in reachable_pbs \cap EXCEPTION_LOCAL_PLAYBOOK_IDS
    /\ unused_pbs = {sB}
    /\ scTags.id \notin reachable_scripts \cup unused_scripts

TextLike(f) ==
    \E e \in {"yml", "yaml", "json", "py", "xif", "md", "txt", "ini", "cfg", "conf"} :
        splitext(f.path)[2] \in {"." \o e, ".PY"}

\* the id or the name of the list occurs in the text of the file
Mentions(f, obj) == Contains(f.text, obj.id) \/ Contains(f.text, obj.name)

UnreachableList(i) ==
    /\ local_lists[i].id \notin reachable_lists
    /\ local_lists[i].id \notin EXCEPTION_LOCAL_LIST_IDS

DefinitionFiles(obj) ==
    {obj.pack \o <<"/Lists/">> \o obj.id \o <<".json">>,
     obj.pack \o <<"/Lists/">> \o obj.id \o <<"_data", ".json">>}

\* C14: in the report, a list of the local index that the crawl did not reach,
\* that is not on the list exception list and whose id and name occur in no
\* text-like file of the repo root other than the files that define it
\* (<name>.json, <name>_data.json) is reported not needed.
C14_OwnDefinitionDoesNotRescue ==
    pc = "done" =>
        \A i \in 1..Len(local_lists) :
            (/\ UnreachableList(i)
             /\ \A f \in all_files :
                   (TextLike(f) /\ Mentions(f, local_lists[i]))
                       => f.path \in DefinitionFiles(local_lists[i]))
            => local_lists[i].id \in unused_lists

\* the records of one kind in a list of external references, in order
RecordsOf(kind, refs) == SelectSeq(refs, LAMBDA r : r.ref_type = kind)

\* the task the crawl is about to process
CurrentTask == files[cur.path][tidx]

\* C15: a step that processes a task whose script reference starts with
\* "Builtin|||" or is on the script allow-list leaves the reachable scripts
\* as they are and adds no script record to the external references; the
\* records already made stay as they are.
C15_SkippedScriptRefChangesNothing ==
    [][(/\ pc = "tasks"
        /\ HasScriptRef(CurrentTask)
        /\ SkippedScriptValue(script_ref(CurrentTask).v))
       => /\ reachable_scripts' = reachable_scripts
          /\ RecordsOf("script", external_refs') = RecordsOf("script", external_refs)
          /\ SubSeq(external_refs', 1, Len(external_refs)) = external_refs]_vars

\* the entry playbook calls allow-listed Print, which is also a local script,
\* and a built-in command: no script is reachable, nothing is recorded as
\* external, and local Print is reported not needed
C15_Witness ==
    /\ pc = "done"
    /\ files[pA.path] = <<ScriptTask(PyStr(<<"Print">>)),
                          ScriptTask(PyStr(<<"Builtin|||", "x">>))>>
    /\ reachable_scripts = {}
    /\ external_refs = <<>>
    /\ scPrint.id \in unused_scripts

\* ids of a sequence of objects, restated
IdsOf(objs) == {objs[i].id : i \in 1..Len(objs)}

\* C16: in every state of a crawl the queue holds only ids of playbooks of
\* the local index, as does everything ever enqueued or dequeued; the playbook
\* being expanded is an entry of the local index; every external reference
\* was found in the file of a local playbook; and what only playbooks of
\* external packs reference is in no reachable set.
C16_OnlyLocalPlaybooksCrawled ==
    /\ \A i \in 1..Len(queue) : queue[i] \in IdsOf(local_pbs)
    /\ \A i \in 1..Len(enq_log) : enq_log[i] \in IdsOf(local_pbs)
    /\ \A i \in 1..Len(deq_log) : deq_log[i] \in IdsOf(local_pbs)
    /\ \A i \in 1..Len(queue) :
          queue[i] \notin IdsOf(local_scripts) \cup IdsOf(local_lists)
    /\ pc = "tasks" => \E j \in 1..Len(local_pbs) : cur = local_pbs[j]
    /\ \A n \in 1..Len(external_refs) :
          \E j \in 1..Len(local_pbs) : external_refs[n].file = local_pbs[j].path
    /\ reachable_scripts \subseteq ReferencedLocalIds("script")
    /\ reachable_lists \subseteq ReferencedLocalIds("list")

\* the entry playbook references playbook E of the external packs, whose files
\* reference local B, S1 and L1: the crawl is over with E recorded as external
\* and never queued, and B, S1 and L1 not reachable
C16_Witness ==
    /\ Returned
    /\ external_indexes # <<>>
    /\ files[pA.path] = <<PbTask(PyStr(sE), PyNone)>>
    /\ Len(external_refs) = 1 /\ external_refs[1].value = sE
    /\ enq_log = <<sA>>
    /\ reachable_pbs = {sA}
    /\ reachable_scripts = {} /\ reachable_lists = {}

\* C17: every step keeps or enlarges each of the three reachable sets; a step
\* that takes a playbook off the queue leaves all three as they are.
C17_ReachableSetsOnlyGrow ==
    [][/\ reachable_pbs \subseteq reachable_pbs'
       /\ reachable_scripts \subseteq reachable_scripts'
       /\ reachable_lists \subseteq reachable_lists'
       /\ Len(queue') < Len(queue) =>
             /\ reachable_pbs' = reachable_pbs
             /\ reachable_scripts' = reachable_scripts
             /\ reachable_lists' = reachable_lists]_vars

\* a crawl that grew all three sets and emptied the queue: A references B and
\* list L1, B references script S1
C17_Witness ==
    /\ Returned
    /\ deq_log = <<sA, sB>>
    /\ queue = <<>>
    /\ reachable_pbs = {sA, sB}
    /\ reachable_scripts = {sS1}
    /\ reachable_lists = {sL1}

\* the first file of a folder listing that defines an object with the id that
\* file i defines, for playbooks and for scripts
FirstPlaybookFile(fs, i) ==
    fs[CHOOSE j \in 1..i :
          /\ is_playbook(fs[j]) /\ load_yaml(fs[j]).id = load_yaml(fs[i]).id
          /\ \A k \in 1..(j - 1) :
                ~(is_playbook(fs[k]) /\ load_yaml(fs[k]).id = load_yaml(fs[i]).id)]

FirstScriptFile(fs, i) ==
    fs[CHOOSE j \in 1..i :
          /\ is_script(fs[j]) /\ script_id(load_yaml(fs[j])) = script_id(load_yaml(fs[i]))
          /\ \A k \in 1..(j - 1) :
                ~(/\ is_script(fs[k])
                  /\ script_id(load_yaml(fs[k])) = script_id(load_yaml(fs[i])))]

Warned(msg, id) == \E n \in 1..Len(stderr) : stderr[n].msg = msg /\ stderr[n].id = id

\* C18: when a pack has been indexed, the entry of every playbook id and of
\* every script id is the object of the first file of the scan that carries
\* the id; a later file with the same id leaves a warning and nothing else,
\* and the scan goes on to the end of the folder.
C18_FirstDuplicateWins ==
    pc = "indexed" =>
        /\ \A i \in 1..Len(pack_dirs.Playbooks) :
              is_playbook(pack_dirs.Playbooks[i]) =>
                  LET first == FirstPlaybookFile(pack_dirs.Playbooks, i)
                  IN  /\ Get(local_pbs, load_yaml(first).id.v) = playbook_of(first, rootPack)
                      /\ first # pack_dirs.Playbooks[i] =>
                            Warned("duplicate playbook id", load_yaml(first).id.v)
        /\ \A i \in 1..Len(pack_dirs.Scripts) :
              is_script(pack_dirs.Scripts[i]) =>
                  LET first == FirstScriptFile(pack_dirs.Scripts, i)
                  IN  /\ Get(local_scripts, script_id(load_yaml(first)).v)
                            = script_of(first, rootPack)
                      /\ first # pack_dirs.Scripts[i] =>
                            Warned("duplicate script id", script_id(load_yaml(first)).v)

\* the files of the Lists folder that name logical list `id`, by position
ListFilesOf(id) ==
    {j \in 1..Len(pack_dirs.Lists) :
        is_list_name(pack_dirs.Lists[j].name) /\ list_name_of(pack_dirs.Lists[j]) = id}

\* C19: when a pack has been indexed, no two entries of the list index have
\* the same id, every entry is the object of the first file of the scan that
\* names its logical id, whatever files come later, and Foo.json together
\* with Foo_data.json give the single entry id = name = Foo.
C19_FirstListFileWins ==
    pc = "indexed" =>
        /\ NoDup([i \in 1..Len(local_lists) |-> local_lists[i].id])
        /\ \A i \in 1..Len(local_lists) :
              /\ ListFilesOf(local_lists[i].id) # {}
              /\ local_lists[i] =
                    list_of(pack_dirs.Lists[CHOOSE j \in ListFilesOf(local_lists[i].id) :
                                               \A k \in ListFilesOf(local_lists[i].id) : j <= k],
                            rootPack)
        /\ {pack_dirs.Lists[j].name : j \in 1..Len(pack_dirs.Lists)}
               = {<<"Foo", ".json">>, <<"Foo", "_data", ".json">>}
           => /\ Len(local_lists) = 1
              /\ local_lists[1].id = sFoo /\ local_lists[1].name = sFoo

\* a file of Playbooks that is read and parses to a mapping
ParsedPlaybookFile(f) ==
    /\ f.name[Len(f.name)] \in {".yml", ".yaml", ".YML"}
    /\ f.doc.kind = "dict"

NonEmptyId(f) == f.doc.id.t = "str" /\ f.doc.id.v # <<>>

PathOfPlaybookFile(f) == rootPack \o <<"/Playbooks/">> \o f.name

\* the playbook index is what the files at positions Js of the folder listing
\* give: every entry has the id and the path of such a file, with the file's
\* name or, without one, its id as name, and every such file has its id in the
\* index
PlaybookIndexIs(Js) ==
    /\ \A i \in 1..Len(local_pbs) :
          \E j \in Js :
              LET f == pack_dirs.Playbooks[j]
              IN  /\ local_pbs[i].path = PathOfPlaybookFile(f)
                  /\ local_pbs[i].id = f.doc.id.v
                  /\ local_pbs[i].name =
                        (IF f.doc.name.t = "str" /\ f.doc.name.v # <<>>
                         THEN f.doc.name.v ELSE f.doc.id.v)
    /\ \A j \in Js :
          \E i \in 1..Len(local_pbs) : local_pbs[i].id = pack_dirs.Playbooks[j].doc.id.v

\* positions of the parsed files with a non-empty tasks mapping and an id
FilesWithTasks ==
    {j \in 1..Len(pack_dirs.Playbooks) :
        /\ ParsedPlaybookFile(pack_dirs.Playbooks[j])
        /\ pack_dirs.Playbooks[j].doc.tasks.t = "dict"
        /\ pack_dirs.Playbooks[j].doc.tasks.v # <<>>
        /\ NonEmptyId(pack_dirs.Playbooks[j])}

\* positions of the parsed files with a tasks mapping, empty or not, and an id
FilesWithTasksMapping ==
    {j \in 1..Len(pack_dirs.Playbooks) :
        /\ ParsedPlaybookFile(pack_dirs.Playbooks[j])
        /\ pack_dirs.Playbooks[j].doc.tasks.t = "dict"
        /\ NonEmptyId(pack_dirs.Playbooks[j])}

\* C20 as stated: when a pack has been indexed, the playbook index holds
\* exactly the parsed files of Playbooks with a non-empty `tasks` mapping and
\* a non-empty id, each under its name or, without a name, under its id.
C20_NonEmptyTasksAndId ==
    pc = "indexed" => PlaybookIndexIs(FilesWithTasks)

\* C20, amended: when a pack has been indexed, the playbook index holds
\* exactly the parsed files of Playbooks whose `tasks` is a mapping, empty or
\* not, and whose id is not empty, each under its name or, when the name is
\* absent or empty, under its id.
C20_TasksMappingAndId ==
    pc = "indexed" => PlaybookIndexIs(FilesWithTasksMapping)

\* a playbook file with `tasks: {}` and an empty name is in the index under
\* its id, the file without an id next to it is not
C20_Witness ==
    /\ pc = "indexed"
    /\ Len(pack_dirs.Playbooks) = 2
    /\ pack_dirs.Playbooks[1].doc.tasks = PyEmptyDict
    /\ pack_dirs.Playbooks[1].doc.name = PyStr(<<>>)
    /\ pack_dirs.Playbooks[2].doc.id = PyNone
    /\ local_pbs = <<ObjectDef("playbook", sB, sB, PathOfPlaybookFile(pack_dirs.Playbooks[1]),
                               rootPack)>>

\* a YAML file of a folder that is read and does not parse
Unparseable(f) == f.doc.kind = "error"

FilesOf(fs) == {fs[j] : j \in 1..Len(fs)}

\* C21: indexing a pack never ends in an uncaught error; when it is over, every
\* file of Playbooks, Scripts and Lists that qualifies has its id in the index
\* of its kind whatever other files the folder holds, and every file that was
\* read and did not parse has left a warning.
C21_IndexingNeverAborts ==
    /\ pc # "crashed"
    /\ pc = "indexed" =>
          /\ \A f \in FilesOf(pack_dirs.Playbooks) :
                /\ is_playbook(f) => HasKey(local_pbs, load_yaml(f).id.v)
                /\ (is_playbook_name(f.name) /\ Unparseable(f)) =>
                      \E n \in 1..Len(stderr) :
                          /\ stderr[n].msg = "Failed to parse YAML"
                          /\ stderr[n].path = rootPack \o <<"/Playbooks/">> \o f.name
          /\ \A f \in FilesOf(pack_dirs.Scripts) :
                /\ is_script(f) => HasKey(local_scripts, script_id(load_yaml(f)).v)
                /\ (is_script_name(f.name) /\ Unparseable(f)) =>
                      \E n \in 1..Len(stderr) :
                          /\ stderr[n].msg = "Failed to parse YAML"
                          /\ stderr[n].path = rootPack \o <<"/Scripts/">> \o f.name
          /\ \A f \in FilesOf(pack_dirs.Lists) :
                is_list_name(f.name) =>
                    \/ HasKey(local_lists, list_name_of(f))
                    \/ HasKey(local_lists, list_base(f.name))

Exited == pc \in {"exited", "done"}

ReportHeadings ==
    {"LOCAL PLAYBOOKS TO KEEP", "LOCAL SCRIPTS TO KEEP", "LOCAL LISTS TO KEEP",
     "LOCAL PLAYBOOKS NOT NEEDED", "LOCAL SCRIPTS NOT NEEDED", "LOCAL LISTS NOT NEEDED",
     "EXTERNAL DEPENDENCIES"}

Printed == {stdout[i] : i \in 1..Len(stdout)}

\* a root named on the command line that the index of the root pack does not hold
NamedRootMissing ==
    \/ MissingIds(cmdline.root_pack.pbs, cmdline.root_playbook_id) # {}
    \/ MissingNames(cmdline.root_pack.pbs, cmdline.root_playbook_name) # {}

NoCrawlYet ==
    /\ pc \in {"main", "other_packs", "roots", "exited"}
    /\ enq_log = <<>>
    /\ deq_log = <<>>
    /\ reachable_pbs = {}
    /\ external_refs = <<>>

\* C23: in a run whose root pack path is not a directory, or in which a root
\* named by id or by name is not in the local index, no crawl ever starts, no
\* section of the report is printed, and when the run has ended its exit
\* status is 1.
C23_BadArgumentsExitBeforeCrawl ==
    (~cmdline.root_pack_isdir \/ NamedRootMissing) =>
        /\ NoCrawlYet
        /\ Printed \cap ReportHeadings = {}
        /\ exit_code # 0
        /\ Exited => exit_code = 1

\* the pack and both external packs were indexed, root A was found, root Z was
\* not: the run has ended with status 1
C23_Witness ==
    /\ pc = "exited"
    /\ exit_code = 1
    /\ cmdline.root_playbook_id = <<sA, sZ>>
    /\ Len(local_pbs) = 3
    /\ Len(external_indexes) = 2
    /\ stderr[Len(stderr)].msg = "ERROR: root playbook id not found"

GoodArguments == cmdline.root_pack_isdir /\ ~NamedRootMissing

NoRootNamed == Len(cmdline.root_playbook_id) + Len(cmdline.root_playbook_name) = 0

\* index_pack raises in the root pack or in an external pack that exists
IndexRaises ==
    \/ cmdline.root_pack.raises
    \/ \E i \in 1..Len(cmdline.other_pack) :
          cmdline.other_pack[i].isdir /\ cmdline.other_pack[i].index.raises

FullReport ==
    /\ Len(stdout) >= 8
    /\ SubSeq(stdout, Len(stdout) - 7, Len(stdout)) =
          <<"LOCAL PLAYBOOKS TO KEEP", "LOCAL SCRIPTS TO KEEP", "LOCAL LISTS TO KEEP",
            "Scanning repo root for list references", "LOCAL PLAYBOOKS NOT NEEDED",
            "LOCAL SCRIPTS NOT NEEDED", "LOCAL LISTS NOT NEEDED",
            "EXTERNAL DEPENDENCIES">>

OtherPacksIndexed == pc \in {"roots", "start", "loop", "tasks", "returned", "done"}

ExistingPacks == SelectSeq(cmdline.other_pack, LAMBDA p : p.isdir)

MissingPacks == SelectSeq(cmdline.other_pack, LAMBDA p : ~p.isdir)

NotFoundWarnings == SelectSeq(stderr, LAMBDA w : w.msg = "WARNING: other pack not found")

\* C26: when the loop over the --other-pack arguments has ended,
\* external_indexes holds the index of every argument that is a directory, in
\* argument order, and nothing for the others; stderr holds one warning for
\* each missing path, in argument order; the run has not ended there, and
\* when nothing else ends it (arguments good, a root named, no exception) it
\* ends with the full report and status 0.
C26_MissingOtherPackIsSkipped ==
    /\ OtherPacksIndexed =>
          /\ Len(external_indexes) = Len(ExistingPacks)
          /\ \A i \in 1..Len(ExistingPacks) :
                /\ external_indexes[i].pack = ExistingPacks[i].path
                /\ external_indexes[i].pbs = ExistingPacks[i].index.pbs
                /\ external_indexes[i].scripts = ExistingPacks[i].index.scripts
                /\ external_indexes[i].lists = ExistingPacks[i].index.lists
          /\ Len(NotFoundWarnings) = Len(MissingPacks)
          /\ \A i \in 1..Len(MissingPacks) : NotFoundWarnings[i].path = MissingPacks[i].path
    /\ (Exited /\ MissingPacks # <<>> /\ GoodArguments /\ ~NoRootNamed /\ ~IndexRaises) =>
          (pc = "done" /\ exit_code = 0 /\ FullReport)

\* a run with --other-pack ext2, a missing path and ext1 has printed its
\* report: the two packs were indexed in that order, and a reference was
\* resolved in ext2
C26_Witness ==
    /\ pc = "done"
    /\ Len(cmdline.other_pack) = 3
    /\ ~cmdline.other_pack[2].isdir
    /\ Len(external_indexes) = 2
    /\ external_indexes[1].pack = extPack2
    /\ external_indexes[2].pack = extPack1
    /\ Len(NotFoundWarnings) = 1
    /\ \E i \in 1..Len(external_refs) : external_refs[i].resolved_pack = extPack2

\* the local playbooks whose file does not parse
BrokenPlaybooks == {i \in 1..Len(local_pbs) : local_pbs[i].path \in yaml_errors}

Dequeued == {deq_log[i] : i \in 1..Len(deq_log)}

Enqueued == {enq_log[i] : i \in 1..Len(enq_log)}

ParseWarnings(path) ==
    SelectSeq(stderr, LAMBDA w : w.msg = "Failed to parse YAML" /\ w.path = path)

\* C25: a local playbook whose file does not parse, once taken from the
\* queue, is in the reachable playbooks and has been warned about once; its
\* task loop is never entered and no external reference names its file. The
\* crawl goes on: when it has returned, every playbook that was enqueued has
\* been dequeued, and the reachable playbooks, scripts and lists are those
\* obtained from the roots when the broken file counts as a file without
\* tasks.
C25_UnparseablePlaybookHasNoTasks ==
    /\ \A i \in BrokenPlaybooks :
          /\ local_pbs[i].id \in Dequeued =>
                /\ local_pbs[i].id \in reachable_pbs
                /\ Len(ParseWarnings(local_pbs[i].path)) = 1
          /\ ~(pc = "tasks" /\ cur = local_pbs[i])
          /\ \A k \in 1..Len(external_refs) : external_refs[k].file # local_pbs[i].path
    /\ Returned =>
          /\ Dequeued = Enqueued
          /\ Dequeued = reachable_pbs
          /\ reachable_pbs = Closure(RootIds)
          /\ reachable_scripts = ReferencedLocalIds("script")
          /\ reachable_lists = ReferencedLocalIds("list")

\* roots A and C, the file of A does not parse: A was dequeued first and left
\* nothing, then C was expanded and its references recorded; B, which only
\* the file of A names, was not reached
C25_Witness ==
    /\ pc = "returned"
    /\ yaml_errors = {pA.path}
    /\ deq_log = <<sA, sC>>
    /\ reachable_pbs = {sA, sC}
    /\ Len(files[pA.path]) > 0
    /\ Len(ParseWarnings(pA.path)) = 1
    /\ \E k \in 1..Len(external_refs) : external_refs[k].file = pC.path

\* the references of the playbooks in S that name a local object of the kind
LocalOccurrences(S, kind) ==
    UNION {{o \in RefOccurrences(id) : o.kind = kind /\ NamedIn(LocalIndex(kind), o.value)} :
           id \in S \cap Keys(local_pbs)}

\* C27: in every state each reachable set holds only keys of the local index
\* of its kind, so that no lookup of the report fails (the run never ends in
\* the KeyError of print_objs); and when the crawl has returned, each
\* reference of a reachable playbook that names a local object, by id or by
\* display name, has put the id of that object in the reachable set.
C27_ReachableAreLocalKeys ==
    /\ \A kind \in Kinds : ReachableSet(kind) \subseteq Keys(LocalIndex(kind))
    /\ KeepFailures = {}
    /\ pc = "exited" => enq_log = <<>>
    /\ Returned =>
          \A kind \in Kinds : \A o \in LocalOccurrences(reachable_pbs, kind) :
              resolve_in_index(o.value, LocalIndex(kind)).id \in ReachableSet(kind)

\* the report was printed after a crawl from A in which playbook B and script
\* S1 were referenced by their display names only: their ids are reachable
C27_Witness ==
    /\ pc = "done"
    /\ exit_code = 0
    /\ yaml_errors = {}
    /\ root_playbooks = <<pA>>
    /\ ref_val(files[pA.path][1]) = sNameB
    /\ sB \in reachable_pbs
    /\ sS1 \in reachable_scripts
    /\ [kind |-> "script", value |-> sNameS1, tid |-> 3, arg |-> 0] \in RefOccurrences(sB)

\* the id or the name of the script is a value that the crawl skips
SkipMatched(sc) == SkippedScriptValue(sc.id) \/ SkippedScriptValue(sc.name)

\* the tasks of reachable playbooks that reference the script by a skipped value
SkippedRefsTo(sc) ==
    {<<id, k>> \in (reachable_pbs \cap Keys(local_pbs)) \X (1..6) :
        /\ k <= Len(TasksOf(id))
        /\ HasScriptRef(TasksOf(id)[k])
        /\ SkippedScriptValue(script_ref(TasksOf(id)[k]).v)
        /\ script_ref(TasksOf(id)[k]).v \in {sc.id, sc.name}}

\* a reachable playbook references the script by a value that is not skipped
ReferencedUnskipped(sc) ==
    \E o \in LocalOccurrences(reachable_pbs, "script") :
        resolve_in_index(o.value, local_scripts) = sc

ExpectedPlaybooks == Closure(RootIds)

ExpectedLocalIds(kind) ==
    {resolve_in_index(o.value, LocalIndex(kind)).id :
        o \in LocalOccurrences(ExpectedPlaybooks, kind)}

ExpectedOccurrences ==
    UNION {{<<id, o>> : o \in {x \in RefOccurrences(id) :
                                  ~NamedIn(LocalIndex(x.kind), x.value)}} :
           id \in ExpectedPlaybooks}

RecordOf(id, o) ==
    ExternalRef(o.kind, o.value, Get(local_pbs, id).path,
                IF o.kind = "list"
                THEN Context(o.tid, "arg", TasksOf(id)[o.tid].scriptarguments[o.arg].name)
                ELSE Context(o.tid, o.kind, <<>>),
                resolved_pack(external_indexes, o.value, o.kind))

\* C29: when the crawl has returned, the three reachable sets and the
\* external reference records, counted with their multiplicity, are the ones
\* that the set of roots determines: the order of the roots on the command
\* line, the order in which the roots enter the queue and the order in which
\* the loop takes the playbooks make no difference.
C29_ResultIsOrderIndependent ==
    Returned =>
        /\ reachable_pbs = ExpectedPlaybooks
        /\ reachable_scripts = ExpectedLocalIds("script")
        /\ reachable_lists = ExpectedLocalIds("list")
        /\ Len(external_refs) = Cardinality(ExpectedOccurrences)
        /\ \A x \in ExpectedOccurrences :
              Cardinality({k \in 1..Len(external_refs) :
                              external_refs[k] = RecordOf(x[1], x[2])})
              = Cardinality({y \in ExpectedOccurrences :
                                RecordOf(y[1], y[2]) = RecordOf(x[1], x[2])})

\* the roots were given as C, A and the loop took A first, then C, then B:
\* all three were expanded and their external references recorded
C29_Witness ==
    /\ pc = "returned"
    /\ cmdline.root_playbook_id = <<sC, sA>>
    /\ yaml_errors = {}
    /\ deq_log = <<sA, sC, sB>>
    /\ Len(external_indexes) = 2
    /\ Len(external_refs) = 5

\* the references in task k of local playbook id that name no local object
ExternalOccurrences(id, k) ==
    {o \in RefOccurrences(id) : o.tid = k /\ ~NamedIn(LocalIndex(o.kind), o.value)}

\* such references in all the playbooks that the loop has expanded
ExpandedOccurrences ==
    UNION {{<<id, o>> : o \in {x \in RefOccurrences(id) :
                                  ~NamedIn(LocalIndex(x.kind), x.value)}} :
           id \in Dequeued \cap Keys(local_pbs)}

\* those of a kind and a literal value
OccurrencesOfValue(kind, value) ==
    {x \in ExpandedOccurrences : x[2].kind = kind /\ x[2].value = value}

RecordsOfValue(kind, value) ==
    {n \in 1..Len(external_refs) :
        external_refs[n].ref_type = kind /\ external_refs[n].value = value}

\* the groups of by_key that hold position n of external_refs
GroupsHolding(n) ==
    {key \in DOMAIN by_key : \E m \in 1..Len(by_key[key]) : by_key[key][m] = external_refs[n]}

RECURSIVE SumOfLens(_, _)
SumOfLens(f, D) ==
    IF D = {} THEN 0
    ELSE LET key == CHOOSE x \in D : TRUE
         IN  Len(f[key]) + SumOfLens(f, D \ {key})

\* C30: every step keeps the records that external_refs holds, in place, and
\* a step of the task loop appends one record for each reference of the task
\* that names no local object, whether or not its value is already recorded;
\* so when the crawl has returned (the state the report starts from) each
\* (kind, value) has as many records as tasks of expanded playbooks reference
\* it. The report prints the length of the list as the count, and its groups
\* hold every record once, each in the group of its (kind, resolved_pack).
C30_ExternalRefsAreAppendOnly ==
    [][/\ Len(external_refs') >= Len(external_refs)
       /\ SubSeq(external_refs', 1, Len(external_refs)) = external_refs
       /\ pc = "tasks" =>
             Len(external_refs') - Len(external_refs)
                = Cardinality(ExternalOccurrences(cur.id, tidx))
       /\ pc = "returned" =>
             /\ Len(external_refs) = Cardinality(ExpandedOccurrences)
             /\ \A x \in ExpandedOccurrences :
                   Cardinality(RecordsOfValue(x[2].kind, x[2].value))
                      = Cardinality(OccurrencesOfValue(x[2].kind, x[2].value))
       /\ pc' = "done" =>
             /\ external_count' = Len(external_refs')
             /\ SumOfLens(by_key', DOMAIN by_key') = Len(external_refs')
             /\ \A n \in 1..Len(external_refs') :
                   GroupsHolding(n)' = {<<external_refs'[n].ref_type,
                                          external_refs'[n].resolved_pack>>}]_vars

\* the report of a crawl in which script SE, defined in both external packs,
\* was referenced by three tasks of two playbooks: three records for it, five
\* in all, counted as five, in three groups
C30_Witness ==
    /\ pc = "done"
    /\ Cardinality(RecordsOfValue("script", sSE)) = 3
    /\ Cardinality(OccurrencesOfValue("script", sSE)) = 3
    /\ external_count = 5
    /\ <<"script", extPack2>> \in DOMAIN by_key
    /\ Len(by_key[<<"script", extPack2>>]) = 3
    /\ Cardinality(DOMAIN by_key) = 3

====
